---- MODULE Spec2Model ----
(***************************************************************************)
(* Model of editor/src/crdt.rs: the character-level replicated text        *)
(* buffer (Id, Global, Op, Node, Buffer) and the CrdtBackend adapter that  *)
(* maps intents onto single-character buffer operations.                   *)
(*                                                                         *)
(* Two specifications are given:                                           *)
(*   Spec        several Buffers exchanging the Ops their local operations *)
(*               return; a received insert Op is integrated by the         *)
(*               buffer's only integration routine, insert_node.           *)
(*   SpecIntent  one CrdtBackend driven by apply_intent.                   *)
(***************************************************************************)
EXTENDS Integers, Sequences, FiniteSets, TLC

(* ------------------------------ bounds --------------------------------- *)
\* number of local operations generated by all replicas together (Spec)
MaxOps == 3
\* longest node list a replica may grow to by deliveries (Spec)
MaxNodes == 4
\* most Ops (own and received, duplicates included) a replica integrates (Spec)
MaxLog == 4
\* highest sequence number a CrdtBackend may allocate (SpecIntent)
MaxSeq == 4
\* longest text of an InsertAt / ReplaceAll intent (SpecIntent)
MaxText == 2
\* highest sequence value of the Ids compared (SpecCmp)
MaxValue == 3
\* number of intents applied to the backends (SpecDraw)
MaxIntents == 4
\* number of intents applied and peers lost, by both peers together (SpecSync)
MaxPeerEvents == 3
\* sync messages in flight in one direction (SpecSync)
MaxInFlight == 1
\* most chunks a message is cut into (SpecTransport)
MaxChunks == 3
\* how far a message's length lies from a multiple of the chunk size
\* (SpecTransport)
MaxSlack == 2
\* number of times the user asks to join a room (SpecRoom)
MaxConnects == 2
\* number of data packets the network task receives (SpecReassembly)
MaxPackets == 3
\* number of intents and files opened, by both editors together (SpecApp)
MaxAppEvents == 3

Replicas == {1, 2}
Chars == {"a", "b"}
\* actor ids of Automerge documents (random in the program)
Actors == {1, 2, 3}
\* participant identities, and the actor id of each one's document
PeerIds == {"a", "b"}
ActorOf == [a |-> 1, b |-> 2]
\* transfer ids (random u64 in the program)
TransferIds == {0, 1}
\* the recipient lists of a Send
RecipientLists == {<<"a">>, <<"b">>, <<"a", "b">>}

VARIABLES
    buf,      \* Spec: replica id -> Buffer
    net,      \* Spec: envelopes of the Ops returned by local operations
    log,      \* Spec: replica id -> sequence of Op ids integrated there, in order
    last,     \* Spec: the most recent step (history)
    backend,  \* SpecIntent: the CrdtBackend's buffer
    call,     \* SpecIntent: the most recent apply_intent call (history)
    cmp,      \* SpecCmp: three Ids and the results of comparing them
    gv,       \* SpecGlobal: a version vector and the update last applied to it
    am,       \* SpecDraw: an AutomergeBackend
    mock,     \* SpecDraw: a MockBackend given the same intents
    ret,      \* SpecDraw: the most recent call and what it returned (history)
    peer,     \* SpecSync: peer id -> AutomergeBackend
    wire,     \* SpecSync: <<from, to>> -> sync messages generated, not yet received
    events,   \* SpecSync: number of intents and peer_disconnected calls so far
    tx,       \* SpecTransport: the command last handled and the packets published
    lk,       \* SpecRoom: the LiveKit fields of AppView, the channels, the task
    rx,       \* SpecReassembly: the network task's transfers and what it forwarded
    ui        \* SpecApp: peer id -> the participants its editor lists; the last step

\* the variables of SpecDraw
drawVars == <<am, mock, ret>>

\* the variables of SpecSync
syncVars == <<peer, wire, events>>

\* the variables of the specifications that do not involve the Buffers
extVars == <<gv, drawVars, syncVars, tx, lk, rx, ui>>

\* the variables of Spec, SpecIntent and SpecCmp
crdtVars == <<buf, net, log, last, backend, call, cmp>>

vars ==
    <<buf, net, log, last, backend, call, cmp, gv, am, mock, ret,
      peer, wire, events, tx, lk, rx, ui>>

(* ------------------------------ Option --------------------------------- *)
None == <<>>
Some(x) == <<x>>
IsSome(o) == o # <<>>
Unwrap(o) == o[1]

(* -------------------------------- Id ----------------------------------- *)
MkId(r, v) == [replica_id |-> r, value |-> v]

\* Ord::cmp of the integer types
CmpInt(x, y) == IF x < y THEN "Less" ELSE IF x = y THEN "Equal" ELSE "Greater"

\* Ordering::then
OrderingThen(first, second) == IF first = "Equal" THEN second ELSE first

\* faulty variant of IdCmp (sensitivity of C20): replica_id first
IdCmp_replica_first(a, b) ==
    OrderingThen(CmpInt(a.replica_id, b.replica_id), CmpInt(a.value, b.value))

\* Ord for Id: value first, replica_id on equal values
IdCmp(a, b) ==
    OrderingThen(CmpInt(a.value, b.value), CmpInt(a.replica_id, b.replica_id))

\* a < b, through PartialOrd
IdLess(a, b) == IdCmp(a, b) = "Less"

(* ------------------------------ Global --------------------------------- *)
\* HashMap<u16, u32>: a function whose domain is the set of keys present
GlobalNew == <<>>

GlobalGet(g, r) == IF r \in DOMAIN g THEN g[r] ELSE 0

\* faulty variant of GlobalUpdate (sensitivity of C21): stores id.value
\* without comparing it with the current entry
GlobalUpdate_overwrite(g, id) ==
    [k \in (DOMAIN g) \cup {id.replica_id} |->
        IF k = id.replica_id THEN id.value ELSE g[k]]

\* entry(replica_id).or_insert(0), raised to id.value when that is larger
GlobalUpdate(g, id) ==
    LET current == GlobalGet(g, id.replica_id)
        new == IF id.value > current THEN id.value ELSE current
    IN  [k \in (DOMAIN g) \cup {id.replica_id} |->
            IF k = id.replica_id THEN new ELSE g[k]]

(* ------------------------------ Buffer --------------------------------- *)
BufferNew(r) ==
    [replica_id |-> r, sequence |-> 0, nodes |-> <<>>,
     version |-> GlobalNew, holdback_queue |-> <<>>]

\* 1-based indices of the visible nodes, in list order
RECURSIVE VisibleFrom(_, _)
VisibleFrom(nodes, i) ==
    IF i > Len(nodes) THEN <<>>
    ELSE IF nodes[i].visible THEN <<i>> \o VisibleFrom(nodes, i + 1)
    ELSE VisibleFrom(nodes, i + 1)

VisibleIdx(nodes) == VisibleFrom(nodes, 1)

render(nodes) ==
    LET v == VisibleIdx(nodes) IN [k \in 1..Len(v) |-> nodes[v[k]].text]

\* Option<usize>, 0-based as in the source
find_index(nodes, id) ==
    IF \E i \in 1..Len(nodes) : nodes[i].insertion_id = id
    THEN Some((CHOOSE i \in 1..Len(nodes) :
                  /\ nodes[i].insertion_id = id
                  /\ \A j \in 1..(i - 1) : nodes[j].insertion_id # id) - 1)
    ELSE None

\* faulty variant of find_visible_insertion_point (sensitivity of C16):
\* a position past the end is clamped to the last visible node
find_visible_insertion_point_clamped(nodes, visible_pos) ==
    LET v == VisibleIdx(nodes) IN
    IF visible_pos = 0 THEN None
    ELSE IF visible_pos <= Len(v) THEN Some(nodes[v[visible_pos]].insertion_id)
    ELSE IF Len(v) > 0 THEN Some(nodes[v[Len(v)]].insertion_id)
    ELSE None

find_visible_insertion_point(nodes, visible_pos) ==
    LET v == VisibleIdx(nodes) IN
    IF visible_pos = 0 THEN None
    ELSE IF visible_pos <= Len(v) THEN Some(nodes[v[visible_pos]].insertion_id)
    ELSE None

\* faulty variant of skip_siblings (sensitivity of C5): skips every sibling, whatever its id
RECURSIVE skip_siblings_any_id(_, _, _)
skip_siblings_any_id(nodes, node, index) ==
    IF /\ index < Len(nodes)
       /\ nodes[index + 1].relative_to_id = node.relative_to_id
    THEN skip_siblings_any_id(nodes, node, index + 1)
    ELSE index

\* the while loop of insert_node: skip siblings with smaller ids
RECURSIVE skip_siblings(_, _, _)
skip_siblings(nodes, node, index) ==
    IF /\ index < Len(nodes)
       /\ nodes[index + 1].relative_to_id = node.relative_to_id
       /\ IdLess(nodes[index + 1].insertion_id, node.insertion_id)
    THEN skip_siblings(nodes, node, index + 1)
    ELSE index

InsertAtIndex(nodes, index, node) ==
    SubSeq(nodes, 1, index) \o <<node>> \o SubSeq(nodes, index + 1, Len(nodes))

\* faulty variant of insert_node (sensitivity of C11): inserts before the anchor
insert_node_before_anchor(nodes, node) ==
    LET start ==
            IF IsSome(node.relative_to_id)
            THEN LET idx == find_index(nodes, Unwrap(node.relative_to_id)) IN
                 IF IsSome(idx) THEN Unwrap(idx) ELSE Len(nodes)
            ELSE 0
    IN  InsertAtIndex(nodes, skip_siblings(nodes, node, start), node)

insert_node(nodes, node) ==
    LET start ==
            IF IsSome(node.relative_to_id)
            THEN LET idx == find_index(nodes, Unwrap(node.relative_to_id)) IN
                 IF IsSome(idx) THEN Unwrap(idx) + 1 ELSE Len(nodes)
            ELSE 0
    IN  InsertAtIndex(nodes, skip_siblings(nodes, node, start), node)

\* faulty variant of apply_local_insert (sensitivity of C18): the Op names
\* the new node itself instead of its anchor
apply_local_insert_self_anchor(b, pos, text) ==
    LET sequence == b.sequence + 1
        id == MkId(b.replica_id, sequence)
        relative_id == find_visible_insertion_point(b.nodes, pos)
        node == [insertion_id |-> id, relative_to_id |-> relative_id,
                 text |-> text, visible |-> TRUE]
        version == GlobalUpdate(b.version, id)
    IN  [buffer |-> [b EXCEPT !.sequence = sequence,
                              !.nodes = insert_node(b.nodes, node),
                              !.version = version],
         op |-> [id |-> id, relative_id |-> Some(id), text |-> Some(text),
                 version |-> version, is_delete |-> FALSE]]

\* faulty variant of apply_local_insert (sensitivity of C34): an insert whose
\* position names no anchor is also kept in the holdback queue
apply_local_insert_hold(b, pos, text) ==
    LET sequence == b.sequence + 1
        id == MkId(b.replica_id, sequence)
        relative_id == find_visible_insertion_point(b.nodes, pos)
        node == [insertion_id |-> id, relative_to_id |-> relative_id,
                 text |-> text, visible |-> TRUE]
        version == GlobalUpdate(b.version, id)
        op == [id |-> id, relative_id |-> relative_id, text |-> Some(text),
               version |-> version, is_delete |-> FALSE]
    IN  [buffer |-> [b EXCEPT !.sequence = sequence,
                              !.nodes = insert_node(b.nodes, node),
                              !.version = version,
                              !.holdback_queue =
                                  IF pos > 0 /\ relative_id = None
                                  THEN Append(@, op) ELSE @],
         op |-> op]

\* returns the buffer after the call and the Op returned
apply_local_insert(b, pos, text) ==
    LET sequence == b.sequence + 1
        id == MkId(b.replica_id, sequence)
        relative_id == find_visible_insertion_point(b.nodes, pos)
        node == [insertion_id |-> id, relative_to_id |-> relative_id,
                 text |-> text, visible |-> TRUE]
        version == GlobalUpdate(b.version, id)
    IN  [buffer |-> [b EXCEPT !.sequence = sequence,
                              !.nodes = insert_node(b.nodes, node),
                              !.version = version],
         op |-> [id |-> id, relative_id |-> relative_id, text |-> Some(text),
                 version |-> version, is_delete |-> FALSE]]

\* faulty variant of apply_local_delete (sensitivity of C12): forgets version.update
apply_local_delete_no_version(b, pos) ==
    LET v == VisibleIdx(b.nodes)
        found == pos < Len(v)
        target_id == IF found THEN Some(b.nodes[v[pos + 1]].insertion_id) ELSE None
        nodes == IF found
                 THEN [b.nodes EXCEPT ![v[pos + 1]].visible = FALSE]
                 ELSE b.nodes
        sequence == b.sequence + 1
        id == MkId(b.replica_id, sequence)
    IN  [buffer |-> [b EXCEPT !.sequence = sequence, !.nodes = nodes],
         op |-> [id |-> id, relative_id |-> target_id, text |-> None,
                 version |-> b.version, is_delete |-> TRUE]]

\* faulty variant of apply_local_delete (sensitivity of C13): does not advance sequence
apply_local_delete_reuse_id(b, pos) ==
    LET v == VisibleIdx(b.nodes)
        found == pos < Len(v)
        target_id == IF found THEN Some(b.nodes[v[pos + 1]].insertion_id) ELSE None
        nodes == IF found
                 THEN [b.nodes EXCEPT ![v[pos + 1]].visible = FALSE]
                 ELSE b.nodes
        id == MkId(b.replica_id, b.sequence)
        version == GlobalUpdate(b.version, id)
    IN  [buffer |-> [b EXCEPT !.nodes = nodes, !.version = version],
         op |-> [id |-> id, relative_id |-> target_id, text |-> None,
                 version |-> version, is_delete |-> TRUE]]

\* faulty variant of apply_local_delete (sensitivity of C15): removes the node
apply_local_delete_remove(b, pos) ==
    LET v == VisibleIdx(b.nodes)
        found == pos < Len(v)
        target_id == IF found THEN Some(b.nodes[v[pos + 1]].insertion_id) ELSE None
        nodes == IF found
                 THEN SubSeq(b.nodes, 1, v[pos + 1] - 1)
                        \o SubSeq(b.nodes, v[pos + 1] + 1, Len(b.nodes))
                 ELSE b.nodes
        sequence == b.sequence + 1
        id == MkId(b.replica_id, sequence)
        version == GlobalUpdate(b.version, id)
    IN  [buffer |-> [b EXCEPT !.sequence = sequence,
                              !.nodes = nodes,
                              !.version = version],
         op |-> [id |-> id, relative_id |-> target_id, text |-> None,
                 version |-> version, is_delete |-> TRUE]]

\* faulty variant of apply_local_delete (sensitivity of C17): an out-of-range
\* position allocates no Id and leaves the version vector alone
apply_local_delete_guarded(b, pos) ==
    LET v == VisibleIdx(b.nodes)
        found == pos < Len(v)
        target_id == IF found THEN Some(b.nodes[v[pos + 1]].insertion_id) ELSE None
        nodes == IF found
                 THEN [b.nodes EXCEPT ![v[pos + 1]].visible = FALSE]
                 ELSE b.nodes
        sequence == IF found THEN b.sequence + 1 ELSE b.sequence
        id == MkId(b.replica_id, sequence)
        version == IF found THEN GlobalUpdate(b.version, id) ELSE b.version
    IN  [buffer |-> [b EXCEPT !.sequence = sequence,
                              !.nodes = nodes,
                              !.version = version],
         op |-> [id |-> id, relative_id |-> target_id, text |-> None,
                 version |-> version, is_delete |-> TRUE]]

\* faulty variant of apply_local_delete (sensitivity of C29): counts every
\* node, tombstones included, so it hides the node at list index pos
apply_local_delete_by_index(b, pos) ==
    LET found == pos < Len(b.nodes)
        target_id == IF found THEN Some(b.nodes[pos + 1].insertion_id) ELSE None
        nodes == IF found
                 THEN [b.nodes EXCEPT ![pos + 1].visible = FALSE]
                 ELSE b.nodes
        sequence == b.sequence + 1
        id == MkId(b.replica_id, sequence)
        version == GlobalUpdate(b.version, id)
    IN  [buffer |-> [b EXCEPT !.sequence = sequence,
                              !.nodes = nodes,
                              !.version = version],
         op |-> [id |-> id, relative_id |-> target_id, text |-> None,
                 version |-> version, is_delete |-> TRUE]]

apply_local_delete(b, pos) ==
    LET v == VisibleIdx(b.nodes)
        found == pos < Len(v)
        target_id == IF found THEN Some(b.nodes[v[pos + 1]].insertion_id) ELSE None
        nodes == IF found
                 THEN [b.nodes EXCEPT ![v[pos + 1]].visible = FALSE]
                 ELSE b.nodes
        sequence == b.sequence + 1
        id == MkId(b.replica_id, sequence)
        version == GlobalUpdate(b.version, id)
    IN  [buffer |-> [b EXCEPT !.sequence = sequence,
                              !.nodes = nodes,
                              !.version = version],
         op |-> [id |-> id, relative_id |-> target_id, text |-> None,
                 version |-> version, is_delete |-> TRUE]]

(* ------------------- integration of a received Op ---------------------- *)
\* The Node an insert Op stands for (Op and Node carry the same fields).
NodeOf(op) ==
    [insertion_id |-> op.id, relative_to_id |-> op.relative_id,
     text |-> Unwrap(op.text), visible |-> TRUE]

\* faulty variant of integrate_insert (sensitivity of C19): an Op whose anchor
\* is absent is pushed on holdback_queue, and the queue is never drained
integrate_insert_hold_no_drain(b, op) ==
    IF IsSome(op.relative_id)
       /\ ~(\E i \in 1..Len(b.nodes) :
               b.nodes[i].insertion_id = Unwrap(op.relative_id))
    THEN [b EXCEPT !.holdback_queue = Append(@, op)]
    ELSE [b EXCEPT !.nodes = insert_node(b.nodes, NodeOf(op)),
                   !.version = GlobalUpdate(b.version, op.id)]

\* An insert Op is integrated the way apply_local_insert integrates its own
\* node: insert_node, then version.update(id).  The source has no other
\* integration path and never writes holdback_queue.
integrate_insert(b, op) ==
    [b EXCEPT !.nodes = insert_node(b.nodes, NodeOf(op)),
              !.version = GlobalUpdate(b.version, op.id)]

\* A delete Op tombstones the node its relative_id names, when present
\* (looked up the way the buffer looks up an anchor: find_index).
integrate_delete(b, op) ==
    LET idx == IF IsSome(op.relative_id)
               THEN find_index(b.nodes, Unwrap(op.relative_id))
               ELSE None
        nodes == IF IsSome(idx)
                 THEN [b.nodes EXCEPT ![Unwrap(idx) + 1].visible = FALSE]
                 ELSE b.nodes
    IN  [b EXCEPT !.nodes = nodes,
                  !.version = GlobalUpdate(b.version, op.id)]

integrate_remote(b, op) ==
    IF op.is_delete THEN integrate_delete(b, op) ELSE integrate_insert(b, op)

(* --------------------------- CrdtBackend ------------------------------- *)
RECURSIVE insert_chars(_, _, _, _)
\* for (i, c) in text.chars().enumerate() { apply_local_insert(pos + i, c) }
insert_chars(b, pos, text, i) ==
    IF i >= Len(text) THEN b
    ELSE insert_chars(apply_local_insert(b, pos + i, text[i + 1]).buffer,
                      pos, text, i + 1)

\* faulty variant of delete_times (sensitivity of C9): advances the position after each deletion
RECURSIVE delete_times_advancing(_, _, _)
delete_times_advancing(b, pos, n) ==
    IF n <= 0 THEN b
    ELSE delete_times_advancing(apply_local_delete(b, pos).buffer, pos + 1, n - 1)

RECURSIVE delete_times(_, _, _)
\* for _ in 0..n { apply_local_delete(pos) }
delete_times(b, pos, n) ==
    IF n <= 0 THEN b
    ELSE delete_times(apply_local_delete(b, pos).buffer, pos, n - 1)

\* faulty variant of apply_intent (sensitivity of C10): ReplaceAll inserts the text without clearing first
apply_intent_no_clear(b, intent) ==
    LET after ==
            CASE intent.kind = "InsertAt" ->
                    insert_chars(b, intent.pos, intent.text, 0)
              [] intent.kind = "DeleteRange" ->
                    delete_times(b, intent.start, intent.end - intent.start)
              [] intent.kind = "ReplaceAll" ->
                    insert_chars(b, 0, intent.text, 0)
              [] OTHER -> b
    IN  [buffer |-> after, full_text |-> render(after.nodes)]

apply_intent(b, intent) ==
    LET after ==
            CASE intent.kind = "InsertAt" ->
                    insert_chars(b, intent.pos, intent.text, 0)
              [] intent.kind = "DeleteRange" ->
                    delete_times(b, intent.start, intent.end - intent.start)
              [] intent.kind = "ReplaceAll" ->
                    insert_chars(
                        delete_times(b, 0, Len(VisibleIdx(b.nodes))),
                        0, intent.text, 0)
              [] OTHER -> b
    IN  [buffer |-> after, full_text |-> render(after.nodes)]

render_text(b) == render(b.nodes)

(* ------------------------------ history -------------------------------- *)
NoStep == [kind |-> "none"]
\* ops: number of apply_local_insert / apply_local_delete calls made so far
NoCall == [kind |-> "none", ops |-> 0]

IsInsertOp(op) == ~op.is_delete
HasNode(nodes, id) == \E i \in 1..Len(nodes) : nodes[i].insertion_id = id
InLog(l, id) == \E i \in 1..Len(l) : l[i] = id

(* ======================================================================= *)
(* Model of editor/src/backend_api.rs and editor/src/automerge_backend.rs: *)
(* strokes, their JSON form, the Automerge document the backend keeps      *)
(* them in, MockBackend and AutomergeBackend.                              *)
(* ======================================================================= *)

(* ------------------------------ Stroke --------------------------------- *)
\* f32: the field finite tells a finite value v from an infinity or NaN
Finite(v) == [finite |-> TRUE, v |-> v]

\* the strokes drawn: the stroke of the backend's tests and two strokes as
\* the editor builds them (at least one point, the pen's or the eraser's
\* color, a width from the size slider, 1.0 to 50.0)
Strokes ==
    { [points |-> <<[x |-> 10, y |-> 10], [x |-> 20, y |-> 20]>>,
       color |-> <<255, 0, 0, 255>>, width |-> Finite(5)],
      [points |-> <<[x |-> 0, y |-> 0]>>,
       color |-> <<0, 0, 0, 255>>, width |-> Finite(1)],
      [points |-> <<[x |-> 799, y |-> 599]>>,
       color |-> <<255, 255, 255, 255>>, width |-> Finite(50)] }

\* faulty variant of to_string (sensitivity of C26): every width is written
\* as null
to_string_null_width(stroke) ==
    [points |-> stroke.points, color |-> stroke.color, width |-> None]

\* serde_json::to_string(&stroke): the JSON object of the three fields; a
\* float that is not finite is written as null (None here), a finite one as
\* its number
to_string(stroke) ==
    [points |-> stroke.points,
     color |-> stroke.color,
     width |-> IF stroke.width.finite THEN Some(stroke.width.v) ELSE None]

\* serde_json::from_str::<Stroke>(json): Err (None here) when width is null,
\* which is no f32
from_str(json) ==
    IF json.width = None
    THEN None
    ELSE Some([points |-> json.points,
               color |-> json.color,
               width |-> Finite(Unwrap(json.width))])

(* ------------------------- Automerge document -------------------------- *)
\* An operation id is a Lamport counter with the actor that made it; ROOT
\* is the id of the root map and stands for the head of a list as well.
ROOT == [counter |-> 0, actor |-> 0]

OpIdLess(a, b) ==
    \/ a.counter < b.counter
    \/ a.counter = b.counter /\ a.actor < b.actor

\* AutoCommit::new(): no operations, a random actor id
AutoCommitNew(actor) == [actor |-> actor, ops |-> {}]

MaxCounter(doc) ==
    IF doc.ops = {} THEN 0
    ELSE LET top == CHOOSE o \in doc.ops :
                       \A p \in doc.ops : p.id.counter <= o.id.counter
         IN  top.id.counter

\* the ids of the operations another operation has overwritten
Overwritten(doc) == UNION {o.pred : o \in doc.ops}

\* the operations that currently give key of the root map a value
RootValues(doc, key) ==
    {o \in doc.ops : /\ o.obj = ROOT /\ o.key = key
                     /\ o.id \notin Overwritten(doc)}

\* doc.get(ROOT, key): of concurrent values the one with the greatest id
doc_get(doc, key) ==
    LET c == RootValues(doc, key) IN
    IF c = {} THEN None
    ELSE Some(CHOOSE o \in c : \A p \in c : p = o \/ OpIdLess(p.id, o.id))

\* doc.put_object(ROOT, key, ObjType::List): returns the new list's id
doc_put_object(doc, key) ==
    LET id == [counter |-> MaxCounter(doc) + 1, actor |-> doc.actor]
        op == [id |-> id, action |-> "makeList", obj |-> ROOT, key |-> key,
               ref |-> None, value |-> None,
               pred |-> {o.id : o \in RootValues(doc, key)}]
    IN  [doc |-> [doc EXCEPT !.ops = @ \cup {op}], id |-> id]

\* doc.put(ROOT, key, value): nothing is written when the key already has
\* this one value
doc_put(doc, key, value) ==
    LET c == RootValues(doc, key)
        op == [id |-> [counter |-> MaxCounter(doc) + 1, actor |-> doc.actor],
               action |-> "set", obj |-> ROOT, key |-> key, ref |-> None,
               value |-> Some(value), pred |-> {o.id : o \in c}]
    IN  IF \E o \in c : c = {o} /\ o.action = "set" /\ o.value = Some(value)
        THEN doc
        ELSE [doc EXCEPT !.ops = @ \cup {op}]

\* The elements of list obj in document order: an element stands right after
\* the element it was inserted after (ref), before the elements inserted
\* there by operations with smaller ids.
RECURSIVE Siblings(_, _, _)
RECURSIVE ElementsAfter(_, _, _)
Siblings(doc, obj, s) ==
    IF s = {} THEN <<>>
    ELSE LET m == CHOOSE o \in s : \A p \in s : p = o \/ OpIdLess(p.id, o.id)
         IN  <<m>> \o ElementsAfter(doc, obj, Some(m.id))
                   \o Siblings(doc, obj, s \ {m})

ElementsAfter(doc, obj, ref) ==
    Siblings(doc, obj,
             {o \in doc.ops : /\ o.action = "insert" /\ o.obj = obj
                              /\ o.ref = ref})

Deleted(doc, obj) ==
    {Unwrap(o.ref) : o \in {d \in doc.ops : d.action = "del" /\ d.obj = obj}}

RECURSIVE Keep(_, _)
Keep(seq, dead) ==
    IF seq = <<>> THEN <<>>
    ELSE IF Head(seq).id \in dead THEN Keep(Tail(seq), dead)
    ELSE <<Head(seq)>> \o Keep(Tail(seq), dead)

\* the visible elements of list obj, in order
VisibleElements(doc, obj) == Keep(ElementsAfter(doc, obj, None), Deleted(doc, obj))

\* doc.values(obj)
doc_values(doc, obj) ==
    LET e == VisibleElements(doc, obj) IN [i \in 1..Len(e) |-> Unwrap(e[i].value)]

\* doc.length(obj)
doc_length(doc, obj) == Len(VisibleElements(doc, obj))

\* doc.insert(obj, index, value): the new element stands after the visible
\* element at index - 1, or at the head of the list when index is 0
doc_insert(doc, obj, index, value) ==
    LET e == VisibleElements(doc, obj)
        op == [id |-> [counter |-> MaxCounter(doc) + 1, actor |-> doc.actor],
               action |-> "insert", obj |-> obj, key |-> "",
               ref |-> IF index = 0 THEN None ELSE Some(e[index].id),
               value |-> Some(value), pred |-> {}]
    IN  [doc EXCEPT !.ops = @ \cup {op}]

\* doc.splice(obj, pos, del, []): one delete operation for each of the del
\* visible elements from index pos on
doc_splice(doc, obj, pos, del) ==
    LET e == VisibleElements(doc, obj)
        base == MaxCounter(doc)
    IN  [doc EXCEPT !.ops = @ \cup
            {[id |-> [counter |-> base + k, actor |-> doc.actor],
              action |-> "del", obj |-> obj, key |-> "",
              ref |-> Some(e[pos + k].id), value |-> None, pred |-> {}]
             : k \in 1..del}]

\* the operations of a set as a sequence, by ascending id
RECURSIVE SortOps(_)
SortOps(ops) ==
    IF ops = {} THEN <<>>
    ELSE LET m == CHOOSE o \in ops : \A p \in ops : p = o \/ OpIdLess(o.id, p.id)
         IN  <<m>> \o SortOps(ops \ {m})

\* doc.save(): the document's changes, encoded in order behind the format's
\* magic bytes
doc_save(doc) == [magic |-> TRUE, changes |-> SortOps(doc.ops)]

\* AutoCommit::load(data): Err (None here) unless the bytes are a document;
\* the loaded document works under a new random actor id
AutoCommitLoad(data, actor) ==
    IF ~data.magic THEN None
    ELSE Some([actor |-> actor,
               ops |-> {data.changes[i] : i \in 1..Len(data.changes)}])

(* ---------------------------- MockBackend ------------------------------ *)
DrawIntent(s) == [kind |-> "Draw", stroke |-> Some(s)]
ClearIntent == [kind |-> "Clear", stroke |-> None]

MockBackendDefault == [strokes |-> <<>>]

MockBackend_get_strokes(m) == m.strokes

MockBackend_apply_intent(m, intent) ==
    LET strokes == IF intent.kind = "Draw"
                   THEN Append(m.strokes, Unwrap(intent.stroke))
                   ELSE <<>>
    IN  [backend |-> [m EXCEPT !.strokes = strokes], update |-> strokes]

(* -------------------------- AutomergeBackend --------------------------- *)
AutomergeBackend_new(actor) ==
    [doc |-> AutoCommitNew(actor), sync_states |-> <<>>]

\* the JSON strings that deserialize, as strokes; the others are skipped
RECURSIVE ParseStrokes(_)
ParseStrokes(values) ==
    IF values = <<>> THEN <<>>
    ELSE LET s == from_str(Head(values)) IN
         IF IsSome(s) THEN <<Unwrap(s)>> \o ParseStrokes(Tail(values))
         ELSE ParseStrokes(Tail(values))

\* the id of the "strokes" list, if the root map holds a list there
strokes_list(doc) ==
    LET v == doc_get(doc, "strokes") IN
    IF IsSome(v) /\ Unwrap(v).action = "makeList" THEN Some(Unwrap(v).id) ELSE None

AutomergeBackend_get_strokes(b) ==
    LET list_id == strokes_list(b.doc) IN
    IF list_id = None THEN <<>>
    ELSE ParseStrokes(doc_values(b.doc, Unwrap(list_id)))

\* set_background: the bytes are put under "background"
AutomergeBackend_set_background(b, data) ==
    [b EXCEPT !.doc = doc_put(@, "background", data)]

\* get_background: the bytes under "background", if a scalar is there
AutomergeBackend_get_background(b) ==
    LET v == doc_get(b.doc, "background") IN
    IF IsSome(v) /\ Unwrap(v).action = "set" THEN Unwrap(v).value ELSE None

\* faulty variant of AutomergeBackend_apply_intent (sensitivity of C22): the
\* stroke is inserted at index 0
AutomergeBackend_apply_intent_at_front(b, intent) ==
    LET list_id == strokes_list(b.doc)
        doc == IF intent.kind = "Draw"
               THEN LET made == IF IsSome(list_id)
                                THEN [doc |-> b.doc, id |-> Unwrap(list_id)]
                                ELSE doc_put_object(b.doc, "strokes")
                    IN  doc_insert(made.doc, made.id, 0,
                                   to_string(Unwrap(intent.stroke)))
               ELSE IF list_id = None THEN b.doc
               ELSE LET len == doc_length(b.doc, Unwrap(list_id)) IN
                    IF len > 0
                    THEN doc_splice(b.doc, Unwrap(list_id), 0, len)
                    ELSE b.doc
        after == [b EXCEPT !.doc = doc]
    IN  [backend |-> after,
         update |-> IF intent.kind = "Clear" /\ list_id = None
                    THEN <<>>
                    ELSE AutomergeBackend_get_strokes(after)]

\* faulty variant of AutomergeBackend_apply_intent (sensitivity of C23):
\* Clear leaves the last stroke in the list
AutomergeBackend_apply_intent_keep_last(b, intent) ==
    LET list_id == strokes_list(b.doc)
        doc == IF intent.kind = "Draw"
               THEN LET made == IF IsSome(list_id)
                                THEN [doc |-> b.doc, id |-> Unwrap(list_id)]
                                ELSE doc_put_object(b.doc, "strokes")
                    IN  doc_insert(made.doc, made.id,
                                   doc_length(made.doc, made.id),
                                   to_string(Unwrap(intent.stroke)))
               ELSE IF list_id = None THEN b.doc
               ELSE LET len == doc_length(b.doc, Unwrap(list_id)) IN
                    IF len > 1
                    THEN doc_splice(b.doc, Unwrap(list_id), 0, len - 1)
                    ELSE b.doc
        after == [b EXCEPT !.doc = doc]
    IN  [backend |-> after,
         update |-> IF intent.kind = "Clear" /\ list_id = None
                    THEN <<>>
                    ELSE AutomergeBackend_get_strokes(after)]

\* Draw: the stroke's JSON is inserted at the end of the "strokes" list,
\* which is created when the root map holds none. Clear: every element of
\* the list is deleted; without a list nothing is done.
AutomergeBackend_apply_intent(b, intent) ==
    LET list_id == strokes_list(b.doc)
        doc == IF intent.kind = "Draw"
               THEN LET made == IF IsSome(list_id)
                                THEN [doc |-> b.doc, id |-> Unwrap(list_id)]
                                ELSE doc_put_object(b.doc, "strokes")
                    IN  doc_insert(made.doc, made.id,
                                   doc_length(made.doc, made.id),
                                   to_string(Unwrap(intent.stroke)))
               ELSE IF list_id = None THEN b.doc
               ELSE LET len == doc_length(b.doc, Unwrap(list_id)) IN
                    IF len > 0
                    THEN doc_splice(b.doc, Unwrap(list_id), 0, len)
                    ELSE b.doc
        after == [b EXCEPT !.doc = doc]
    IN  [backend |-> after,
         update |-> IF intent.kind = "Clear" /\ list_id = None
                    THEN <<>>
                    ELSE AutomergeBackend_get_strokes(after)]

AutomergeBackend_save(b) == doc_save(b.doc)

\* faulty variant of AutomergeBackend_load (sensitivity of C24): the sync
\* states are cleared but the loaded document is dropped
AutomergeBackend_load_keep_doc(b, data, actor) ==
    LET doc == AutoCommitLoad(data, actor) IN
    IF IsSome(doc) THEN [b EXCEPT !.sync_states = <<>>] ELSE b

\* faulty variant of AutomergeBackend_load (sensitivity of C32): the sync
\* states are cleared whether the bytes decode or not
AutomergeBackend_load_clear_always(b, data, actor) ==
    LET doc == AutoCommitLoad(data, actor) IN
    IF IsSome(doc)
    THEN [b EXCEPT !.doc = Unwrap(doc), !.sync_states = <<>>]
    ELSE [b EXCEPT !.sync_states = <<>>]

\* on Ok the document is replaced and the sync states are cleared; on Err
\* nothing changes
AutomergeBackend_load(b, data, actor) ==
    LET doc == AutoCommitLoad(data, actor) IN
    IF IsSome(doc)
    THEN [b EXCEPT !.doc = Unwrap(doc), !.sync_states = <<>>]
    ELSE b

(* ------------------------- Automerge sync ------------------------------ *)
\* The heads of a document name its whole history; they are modelled by the
\* set of the ids of its operations.
Heads(doc) == {o.id : o \in doc.ops}

\* sync::State::new()
SyncStateNew ==
    [their_heads |-> None, last_sent_heads |-> {}, sent_hashes |-> {},
     have_responded |-> FALSE, in_flight |-> FALSE]

\* faulty variant of doc_generate_sync_message (sensitivity of C25): silent
\* once it has answered with the current heads, changes left to send or not
doc_generate_sync_message_no_changes(doc, st) ==
    IF st.last_sent_heads = Heads(doc) /\ st.have_responded
    THEN [state |-> st, msg |-> None]
    ELSE [state |-> [st EXCEPT !.have_responded = TRUE,
                               !.last_sent_heads = Heads(doc),
                               !.in_flight = TRUE],
          msg |-> Some([heads |-> Heads(doc), changes |-> {}])]

\* doc.sync().generate_sync_message(state): our heads and the changes the
\* peer is known to lack and has not been sent; None when the heads were
\* sent already and either the peer has the same heads and nothing is left
\* to send, or a message is still unanswered
doc_generate_sync_message(doc, st) ==
    LET our_heads == Heads(doc)
        changes == IF IsSome(st.their_heads)
                   THEN {o \in doc.ops : /\ o.id \notin Unwrap(st.their_heads)
                                         /\ o.id \notin st.sent_hashes}
                   ELSE {}
        heads_unchanged == st.last_sent_heads = our_heads
        heads_equal == st.their_heads = Some(our_heads)
    IN  IF /\ heads_unchanged /\ st.have_responded
           /\ (heads_equal /\ changes = {}) \/ st.in_flight
        THEN [state |-> st, msg |-> None]
        ELSE [state |-> [st EXCEPT !.have_responded = TRUE,
                                   !.last_sent_heads = our_heads,
                                   !.sent_hashes = @ \cup {o.id : o \in changes},
                                   !.in_flight = TRUE],
              msg |-> Some([heads |-> our_heads, changes |-> changes])]

\* doc.sync().receive_sync_message(state, msg): the changes are applied and
\* the peer's heads recorded; hashes the peer has seen are no longer pending
doc_receive_sync_message(doc, st, msg) ==
    LET before_heads == Heads(doc)
        after == [doc EXCEPT !.ops = @ \cup msg.changes]
        pending == st.sent_hashes \ msg.heads
        known == msg.heads \subseteq Heads(after)
        lost == known /\ msg.heads = {}
    IN  [doc |-> after,
         state |-> [st EXCEPT
            !.their_heads = Some(msg.heads),
            !.sent_hashes = IF lost THEN {} ELSE pending,
            !.last_sent_heads =
                IF lost THEN {}
                ELSE IF msg.changes = {} /\ msg.heads = before_heads
                THEN msg.heads
                ELSE @,
            !.in_flight = IF pending = {} \/ known THEN FALSE ELSE @]]

\* sync::Message::encode: heads and changes in order behind a type byte
sync_encode(msg) ==
    [magic |-> TRUE, heads |-> msg.heads, changes |-> SortOps(msg.changes)]

\* sync::Message::decode: Err (None here) unless the bytes are a message
sync_decode(data) ==
    IF ~data.magic THEN None
    ELSE Some([heads |-> data.heads,
               changes |-> {data.changes[i] : i \in 1..Len(data.changes)}])

\* HashMap insert / remove
SetKey(f, k, v) == [x \in DOMAIN f \cup {k} |-> IF x = k THEN v ELSE f[x]]
RemoveKey(f, k) == [x \in DOMAIN f \ {k} |-> f[x]]

AutomergeBackend_peer_connected(b, peer_id) ==
    [b EXCEPT !.sync_states = SetKey(@, peer_id, SyncStateNew)]

AutomergeBackend_peer_disconnected(b, peer_id) ==
    [b EXCEPT !.sync_states = RemoveKey(@, peer_id)]

\* entry(peer_id).or_insert_with(State::new); a message that does not decode
\* is dropped
AutomergeBackend_receive_sync_message(b, peer_id, message) ==
    LET st == IF peer_id \in DOMAIN b.sync_states
              THEN b.sync_states[peer_id] ELSE SyncStateNew
        msg == sync_decode(message)
        r == IF IsSome(msg)
             THEN doc_receive_sync_message(b.doc, st, Unwrap(msg))
             ELSE [doc |-> b.doc, state |-> st]
        after == [doc |-> r.doc, sync_states |-> SetKey(b.sync_states, peer_id, r.state)]
    IN  [backend |-> after, update |-> AutomergeBackend_get_strokes(after)]

\* None when the peer has no sync state
AutomergeBackend_generate_sync_message(b, peer_id) ==
    IF peer_id \notin DOMAIN b.sync_states
    THEN [backend |-> b, message |-> None]
    ELSE LET r == doc_generate_sync_message(b.doc, b.sync_states[peer_id]) IN
         [backend |-> [b EXCEPT !.sync_states[peer_id] = r.state],
          message |-> IF IsSome(r.msg) THEN Some(sync_encode(Unwrap(r.msg))) ELSE None]

\* the directed links between the participants
Links == {l \in PeerIds \X PeerIds : l[1] # l[2]}

\* no call yet
NoRet ==
    [kind |-> "none", intent |-> ClearIntent, n |-> 0,
     before |-> AutomergeBackend_new(1), am_update |-> <<>>,
     mock_update |-> <<>>, loaded |-> AutomergeBackend_new(1)]

(* ----------------------------- ui.rs: sync ----------------------------- *)
\* NetworkMessage::Sync(payload)
Sync(payload) == [type |-> "Sync", payload |-> payload]

\* sync_with_all: for each listed participant in turn, a sync message is
\* generated and, when there is one, a Send for that participant is handed
\* to the network task; yields the backend and the Sends
RECURSIVE sync_with_all(_, _)
sync_with_all(b, participants) ==
    IF participants = <<>> THEN [backend |-> b, sent |-> <<>>]
    ELSE LET p == Head(participants)
             r == AutomergeBackend_generate_sync_message(b, p)
             rest == sync_with_all(r.backend, Tail(participants))
         IN  [backend |-> rest.backend,
              sent |-> (IF IsSome(r.message)
                        THEN <<[recipients |-> <<p>>,
                                message |-> Sync(Unwrap(r.message))]>>
                        ELSE <<>>)
                       \o rest.sent]

\* the stroke the editors draw and the picture they open
AppStroke == CHOOSE s \in Strokes : s.width = Finite(1)
Picture == [bytes |-> "png"]

\* the actor id of the document that wrote the file
FileActor == CHOOSE a \in Actors : \A p \in PeerIds : ActorOf[p] # a

\* a document saved earlier by another editor: one stroke
SavedBackend ==
    AutomergeBackend_apply_intent(AutomergeBackend_new(FileActor),
                                  DrawIntent(AppStroke)).backend

\* std::fs::read(&path): a saved document, or bytes that are none
ValidFile == AutomergeBackend_save(SavedBackend)
GarbageFile == [magic |-> FALSE, changes |-> <<>>]
Files == {ValidFile, GarbageFile}

\* no step yet
NoAppStep ==
    [kind |-> "none", p |-> "a", data |-> GarbageFile,
     before |-> AutomergeBackend_new(1), loaded |-> AutomergeBackend_new(1),
     participants |-> <<>>, sent |-> <<>>]

(* --------------------------- ui.rs: transport -------------------------- *)
\* the most message bytes one packet carries
ChunkSize == 14000

\* A Vec<u8> or &[u8] of message bytes is modelled by the range of the
\* serialized message it holds: byte k of the message is named k.
Slice(start, len) == [start |-> start, len |-> len]

\* the bytes of a slice
Bytes(s) == [k \in 1..s.len |-> s.start + k - 1]

\* the JSON of NetworkMessage::Chat(""), character by character
ChatEnvelope == <<"{", "\"", "C", "h", "a", "t", "\"", ":", "\"", "\"", "}">>

\* NetworkMessage::Chat(text), text of n characters that need no escape
Chat(n) == [type |-> "Chat", chars |-> n]

\* serde_json::to_vec(&msg): the envelope around the text
NetworkMessage_to_vec(msg) == Slice(0, Len(ChatEnvelope) + msg.chars)

\* TransportPacket::Message(data)
TransportMessage(data) == [type |-> "Message", data |-> data]

\* TransportPacket::Chunk { id, index, total, data }
TransportChunk(id, index, total, data) ==
    [type |-> "Chunk", id |-> id, index |-> index, total |-> total, data |-> data]

\* serde_json::to_vec(&packet): an object whose one key is the variant
TransportPacket_to_vec(packet) ==
    IF packet.type = "Message"
    THEN [Message |-> packet.data]
    ELSE [Chunk |-> [id |-> packet.id, index |-> packet.index,
                     total |-> packet.total, data |-> packet.data]]

\* serde_json::from_slice::<TransportPacket>(&payload): Err (None here) for
\* bytes of another shape
TransportPacket_from_slice(payload) ==
    IF DOMAIN payload = {"Message"}
    THEN Some(TransportMessage(payload.Message))
    ELSE IF DOMAIN payload = {"Chunk"}
    THEN Some(TransportChunk(payload.Chunk.id, payload.Chunk.index,
                             payload.Chunk.total, payload.Chunk.data))
    ELSE None

\* data.chunks(size): consecutive slices of size bytes, the last one shorter
\* when the length is no multiple of size; none for empty data
RECURSIVE chunks(_, _)
chunks(data, size) ==
    IF data.len = 0 THEN <<>>
    ELSE LET n == IF data.len < size THEN data.len ELSE size IN
         <<Slice(data.start, n)>> \o chunks(Slice(data.start + n, data.len - n), size)

\* faulty variant of Packets (sensitivity of C27): the chunk count is
\* len / 14000 + 1
Packets_floor_plus_one(data, id) ==
    LET chunks_count == data.len \div ChunkSize + 1 IN
    IF chunks_count <= 1
    THEN <<TransportMessage(data)>>
    ELSE LET cs == chunks(data, ChunkSize) IN
         [i \in 1..Len(cs) |-> TransportChunk(id, i - 1, chunks_count, cs[i])]

\* the TransportPackets the Broadcast and Send arms build from the serialized
\* message (the casts to u32 keep the values: far fewer than 2^32 chunks)
Packets(data, id) ==
    LET chunks_count == (data.len + ChunkSize - 1) \div ChunkSize IN
    IF chunks_count <= 1
    THEN <<TransportMessage(data)>>
    ELSE LET cs == chunks(data, ChunkSize) IN
         [i \in 1..Len(cs) |-> TransportChunk(id, i - 1, chunks_count, cs[i])]

\* the DataPackets handed to publish_data, in order
Publish(msg, id, dest) ==
    LET ps == Packets(NetworkMessage_to_vec(msg), id) IN
    [i \in 1..Len(ps) |->
        [payload |-> TransportPacket_to_vec(ps[i]), reliable |-> TRUE,
         destination_identities |-> dest]]

\* no command handled yet
NoTx == [cmd |-> "none", message |-> Chat(0), published |-> <<>>]

(* ------------------------- ui.rs: reassembly --------------------------- *)
\* the message whose bytes the received packets carry: one byte longer than
\* a chunk, so an editor sends it as two chunks
ReceivedMessage == Chat(ChunkSize + 1 - Len(ChatEnvelope))

\* the chunks an editor cuts the message into, and their payloads
SentChunks == chunks(NetworkMessage_to_vec(ReceivedMessage), ChunkSize)
Pieces == {SentChunks[i] : i \in 1..Len(SentChunks)}

\* the byte vectors of parts hold the bytes from offset at on, with no gap
RECURSIVE Contiguous(_, _)
Contiguous(parts, at) ==
    \/ parts = <<>>
    \/ /\ Head(parts).start = at
       /\ Contiguous(Tail(parts), at + Head(parts).len)

RECURSIVE TotalLen(_)
TotalLen(parts) == IF parts = <<>> THEN 0 ELSE Head(parts).len + TotalLen(Tail(parts))

\* serde_json::from_slice::<NetworkMessage>(&data), data given as the vectors
\* it was collected from: Ok only for the bytes of a whole message (a JSON
\* value that stops early or goes on is an error)
NetworkMessage_from_slice(parts) ==
    IF /\ Contiguous(parts, 0)
       /\ TotalLen(parts) = NetworkMessage_to_vec(ReceivedMessage).len
    THEN Some(Chat(TotalLen(parts) - Len(ChatEnvelope)))
    ELSE None

\* (0, vec![None; total as usize])
NewTransfer(total) == [count |-> 0, slots |-> [i \in 1..total |-> None]]

\* tx_msg.send(AppMsg::NetworkMessage { sender, message }) when the bytes parse
Forward(forwarded, sender, parts) ==
    LET msg == NetworkMessage_from_slice(parts) IN
    IF IsSome(msg)
    THEN Append(forwarded, [sender |-> sender, message |-> Unwrap(msg)])
    ELSE forwarded

\* faulty variant of Chunk_arm (sensitivity of C31): a chunk that arrives
\* again replaces the stored one and is counted again
Chunk_arm_recount(state, sender, packet) ==
    LET entry == IF sender \in DOMAIN state.incomplete_transfers
                 THEN state.incomplete_transfers[sender] ELSE <<>>
        found == IF packet.id \in DOMAIN entry
                 THEN entry[packet.id] ELSE NewTransfer(packet.total)
        in_range == packet.index < Len(found.slots)
        transfer == IF in_range
                    THEN [count |-> found.count + 1,
                          slots |-> [found.slots EXCEPT ![packet.index + 1] = Some(packet.data)]]
                    ELSE found
        complete == in_range /\ transfer.count = packet.total
        missing == \E i \in 1..Len(transfer.slots) : transfer.slots[i] = None
        full_data == [i \in 1..Len(transfer.slots) |-> Unwrap(transfer.slots[i])]
    IN  IF complete /\ missing
        THEN [state EXCEPT !.panicked = TRUE,
                           !.incomplete_transfers = SetKey(@, sender, SetKey(entry, packet.id, transfer))]
        ELSE IF complete
        THEN [state EXCEPT !.incomplete_transfers = SetKey(@, sender, RemoveKey(entry, packet.id)),
                           !.forwarded = Forward(@, sender, full_data)]
        ELSE [state EXCEPT !.incomplete_transfers = SetKey(@, sender, SetKey(entry, packet.id, transfer))]

\* the TransportPacket::Chunk arm of the DataReceived handler: the transfer
\* of (sender, id) is found or created with the packet's total; a chunk for
\* an empty slot inside the buffer is stored and counted; when the count
\* equals the packet's total the slots are unwrapped and joined, the transfer
\* is removed and the message forwarded if it parses. Unwrapping an empty
\* slot panics: the task ends.
Chunk_arm(state, sender, packet) ==
    LET entry == IF sender \in DOMAIN state.incomplete_transfers
                 THEN state.incomplete_transfers[sender] ELSE <<>>
        found == IF packet.id \in DOMAIN entry
                 THEN entry[packet.id] ELSE NewTransfer(packet.total)
        in_range == packet.index < Len(found.slots)
        transfer == IF in_range /\ found.slots[packet.index + 1] = None
                    THEN [count |-> found.count + 1,
                          slots |-> [found.slots EXCEPT ![packet.index + 1] = Some(packet.data)]]
                    ELSE found
        complete == in_range /\ transfer.count = packet.total
        missing == \E i \in 1..Len(transfer.slots) : transfer.slots[i] = None
        full_data == [i \in 1..Len(transfer.slots) |-> Unwrap(transfer.slots[i])]
    IN  IF complete /\ missing
        THEN [state EXCEPT !.panicked = TRUE,
                           !.incomplete_transfers = SetKey(@, sender, SetKey(entry, packet.id, transfer))]
        ELSE IF complete
        THEN [state EXCEPT !.incomplete_transfers = SetKey(@, sender, RemoveKey(entry, packet.id)),
                           !.forwarded = Forward(@, sender, full_data)]
        ELSE [state EXCEPT !.incomplete_transfers = SetKey(@, sender, SetKey(entry, packet.id, transfer))]

\* the RoomEvent::DataReceived handler for a payload of a participant
DataReceived(state, sender, payload) ==
    LET packet == TransportPacket_from_slice(payload) IN
    IF IsSome(packet)
    THEN IF Unwrap(packet).type = "Message"
         THEN [state EXCEPT !.forwarded = Forward(@, sender, <<Unwrap(packet).data>>)]
         ELSE Chunk_arm(state, sender, Unwrap(packet))
    ELSE [state EXCEPT !.forwarded = Forward(@, sender, <<payload>>)]

\* the task after Room::connect: no transfer, nothing forwarded
NoRx ==
    [incomplete_transfers |-> <<>>, forwarded |-> <<>>, panicked |-> FALSE]

\* nothing received for a transfer yet (history)
NoHist == [totals |-> {}, first |-> <<>>]

(* ----------------------------- ui.rs: room ----------------------------- *)
\* AppView::new: not connected, no channels; no task spawned
NoRoom ==
    [livekit_connected |-> FALSE, livekit_connecting |-> FALSE,
     livekit_events |-> <<>>, livekit_participants |-> <<>>,
     livekit_command_sender |-> FALSE, app_msg_receiver |-> FALSE,
     cmds |-> <<>>, msgs |-> <<>>, task |-> "none", connects |-> 0]

(* --------------------------- Spec: replicas ---------------------------- *)
InitReplicas ==
    /\ buf = [r \in Replicas |-> BufferNew(r)]
    /\ net = {}
    /\ log = [r \in Replicas |-> <<>>]
    /\ last = NoStep

InitBackend ==
    /\ backend = BufferNew(1)
    /\ call = NoCall

NoCmp == [done |-> FALSE]

InitCmp == cmp = NoCmp

\* Global::new(): an empty map; no update applied yet
InitVersion == gv = [state |-> GlobalNew, before |-> GlobalNew, id |-> None]

\* AutomergeBackend::new() and MockBackend::default(); nothing called yet
InitDraw ==
    /\ am = AutomergeBackend_new(1)
    /\ mock = MockBackendDefault
    /\ ret = NoRet

\* two editors, each with a new AutomergeBackend; nothing sent
InitSync ==
    /\ peer = [p \in PeerIds |-> AutomergeBackend_new(ActorOf[p])]
    /\ wire = [l \in Links |-> <<>>]
    /\ events = 0

\* the network task has handled no command
InitTransport == tx = NoTx

\* AppView::new
InitRoom == lk = NoRoom

\* the task has received nothing
InitReassembly ==
    rx = [task |-> NoRx, hist |-> <<>>, packets |-> 0,
          last |-> [kind |-> "none", sender |-> "a", payload |-> <<>>,
                    hist |-> NoHist, again |-> FALSE, before |-> None,
                    after |-> None, forwarded |-> <<>>]]

\* two editors in one room, each listing itself; nothing done yet
InitApp ==
    ui = [livekit_participants |-> [p \in PeerIds |-> <<p>>], last |-> NoAppStep]

\* the initial state of the variables outside the Buffers
InitExt ==
    /\ InitVersion /\ InitDraw /\ InitSync /\ InitTransport /\ InitRoom
    /\ InitReassembly /\ InitApp

Init == InitReplicas /\ InitBackend /\ InitCmp /\ InitExt

LocalInsert(r, pos, c) ==
    /\ Cardinality(net) < MaxOps
    /\ Len(log[r]) < MaxLog
    /\ Len(buf[r].nodes) < MaxNodes
    /\ LET res == apply_local_insert(buf[r], pos, c) IN
        /\ buf' = [buf EXCEPT ![r] = res.buffer]
        /\ net' = net \cup {[op |-> res.op, pos |-> pos, before |-> buf[r].nodes]}
        /\ log' = [log EXCEPT ![r] = Append(@, res.op.id)]
        /\ last' = [kind |-> "local_insert", r |-> r, op |-> res.op, pos |-> pos,
                    before |-> buf[r], duplicate |-> FALSE]
    /\ UNCHANGED <<backend, call, cmp, extVars>>

LocalDelete(r, pos) ==
    /\ Cardinality(net) < MaxOps
    /\ Len(log[r]) < MaxLog
    /\ LET res == apply_local_delete(buf[r], pos) IN
        /\ buf' = [buf EXCEPT ![r] = res.buffer]
        /\ net' = net \cup {[op |-> res.op, pos |-> pos, before |-> buf[r].nodes]}
        /\ log' = [log EXCEPT ![r] = Append(@, res.op.id)]
        /\ last' = [kind |-> "local_delete", r |-> r, op |-> res.op, pos |-> pos,
                    before |-> buf[r], duplicate |-> FALSE]
    /\ UNCHANGED <<backend, call, cmp, extVars>>

\* replica r receives an Op of another replica; any order, duplicates included
Deliver(r, e) ==
    /\ e.op.id.replica_id # r
    /\ Len(log[r]) < MaxLog
    /\ IsInsertOp(e.op) => Len(buf[r].nodes) < MaxNodes
    /\ buf' = [buf EXCEPT ![r] = integrate_remote(buf[r], e.op)]
    /\ log' = [log EXCEPT ![r] = Append(@, e.op.id)]
    /\ last' = [kind |-> "remote", r |-> r, op |-> e.op, pos |-> e.pos,
                before |-> buf[r], duplicate |-> InLog(log[r], e.op.id)]
    /\ UNCHANGED <<net, backend, call, cmp, extVars>>

Next ==
    \/ \E r \in Replicas, c \in Chars :
          \E pos \in 0..Len(VisibleIdx(buf[r].nodes)) : LocalInsert(r, pos, c)
    \/ \E r \in Replicas :
          \E pos \in 0..(Len(VisibleIdx(buf[r].nodes)) - 1) : LocalDelete(r, pos)
    \/ \E r \in Replicas, e \in net : Deliver(r, e)

Spec == Init /\ [][Next]_vars

(* ------------------------ SpecIntent: CrdtBackend ---------------------- *)
Texts == UNION {[1..n -> Chars] : n \in 0..MaxText}

\* number of sequence numbers an intent consumes on buffer b
OpsNeeded(b, intent) ==
    CASE intent.kind = "InsertAt" -> Len(intent.text)
      [] intent.kind = "DeleteRange" ->
            IF intent.end > intent.start THEN intent.end - intent.start ELSE 0
      [] intent.kind = "ReplaceAll" -> Len(VisibleIdx(b.nodes)) + Len(intent.text)
      [] OTHER -> 0

ApplyIntent(intent) ==
    /\ backend.sequence + OpsNeeded(backend, intent) <= MaxSeq
    /\ LET res == apply_intent(backend, intent) IN
        /\ backend' = res.buffer
        /\ call' = [kind |-> intent.kind, intent |-> intent, before |-> backend,
                    full_text |-> res.full_text,
                    ops |-> call.ops + OpsNeeded(backend, intent)]
    /\ UNCHANGED <<buf, net, log, last, cmp, extVars>>

\* positions one past the visible length are out of range for every intent
Positions == 0..(Len(VisibleIdx(backend.nodes)) + 1)

InsertAt ==
    \E pos \in Positions, text \in Texts :
        ApplyIntent([kind |-> "InsertAt", pos |-> pos, text |-> text])

DeleteRange ==
    \E start \in Positions, end \in Positions :
        ApplyIntent([kind |-> "DeleteRange", start |-> start, end |-> end])

ReplaceAll ==
    \E text \in Texts : ApplyIntent([kind |-> "ReplaceAll", text |-> text])

MoveCursor ==
    \E pos \in Positions : ApplyIntent([kind |-> "MoveCursor", pos |-> pos])

NextIntent == InsertAt \/ DeleteRange \/ ReplaceAll \/ MoveCursor

SpecIntent == Init /\ [][NextIntent]_vars

(* ======================================================================= *)
(*                                 Claims                                  *)
(* ======================================================================= *)
LogSet(l) == {l[i] : i \in 1..Len(l)}
NoDup(l) == \A i, j \in 1..Len(l) : i # j => l[i] # l[j]
Envelope(id) == CHOOSE e \in net : e.op.id = id

\* every Op in r's log that names a node was integrated after that node's insert
Causal(r) ==
    \A i \in 1..Len(log[r]) :
        LET op == Envelope(log[r][i]).op IN
        IsSome(op.relative_id) =>
            \E j \in 1..(i - 1) : log[r][j] = Unwrap(op.relative_id)

EndsWith(l, a, b) == Len(l) >= 2 /\ l[Len(l) - 1] = a /\ l[Len(l)] = b

\* replica of a: generated a, then integrated b; replica of b: the reverse
Exchanged(ea, eb) ==
    /\ EndsWith(log[ea.op.id.replica_id], ea.op.id, eb.op.id)
    /\ EndsWith(log[eb.op.id.replica_id], eb.op.id, ea.op.id)

PosOf(nodes, id) == Unwrap(find_index(nodes, id))
RemoveAt(t, i) == SubSeq(t, 1, i - 1) \o SubSeq(t, i + 1, Len(t))

(* ---- C1 (Spec) -------------------------------------------------------- *)
\* C1: two replicas that have integrated the same set of Ops, each exactly
\* once and each only after the node it names was present, render the same
\* string.
C1_Convergence ==
    \A r1, r2 \in Replicas :
        (/\ LogSet(log[r1]) = LogSet(log[r2])
         /\ NoDup(log[r1]) /\ NoDup(log[r2])
         /\ Causal(r1) /\ Causal(r2))
        => render(buf[r1].nodes) = render(buf[r2].nodes)

(* ---- C2 (SpecIntent) -------------------------------------------------- *)
\* C2: in every reachable state, of two nodes with the same anchor the one
\* with the smaller Id comes earlier in the node list.
C2_SiblingsAscending ==
    \A i, j \in 1..Len(backend.nodes) :
        (/\ i < j
         /\ backend.nodes[i].relative_to_id = backend.nodes[j].relative_to_id)
        => IdLess(backend.nodes[i].insertion_id, backend.nodes[j].insertion_id)

(* ---- C3 (SpecIntent) -------------------------------------------------- *)
\* C3: InsertAt{pos, text} with pos within the visible length returns the
\* previous text with `text` inserted at character index pos.
C3_InsertAtSplices ==
    (call.kind = "InsertAt" /\ call.intent.pos <= Len(render(call.before.nodes)))
    => LET t == render(call.before.nodes)
           pos == call.intent.pos
       IN  call.full_text =
               SubSeq(t, 1, pos) \o call.intent.text \o SubSeq(t, pos + 1, Len(t))

(* ---- C4 (Spec) -------------------------------------------------------- *)
\* C4: integrating an Op whose Id was already integrated changes neither the
\* node list (visibility included), nor the rendered text, nor the version
\* vector.
C4_DuplicateIsNoOp ==
    (last.kind = "remote" /\ last.duplicate)
    => /\ buf[last.r].nodes = last.before.nodes
       /\ render(buf[last.r].nodes) = render(last.before.nodes)
       /\ buf[last.r].version = last.before.version

(* ---- C5 (Spec) -------------------------------------------------------- *)
ConcurrentInsertPair(ea, eb) ==
    /\ ~ea.op.is_delete /\ ~eb.op.is_delete
    /\ ea.op.id.replica_id # eb.op.id.replica_id
    /\ ea.before = eb.before
    /\ ea.pos = eb.pos
    /\ ea.op.text # eb.op.text

\* C5: two replicas in the same state that each insert a different character
\* at the same visible position and then integrate the other's Op hold the
\* same node list, with the two new nodes in ascending Id order.
C5_OrderDeterminism ==
    \A ea, eb \in net :
        (ConcurrentInsertPair(ea, eb) /\ Exchanged(ea, eb))
        => LET na == buf[ea.op.id.replica_id].nodes
               nb == buf[eb.op.id.replica_id].nodes
           IN  /\ na = nb
               /\ IdLess(ea.op.id, eb.op.id)
                    <=> PosOf(na, ea.op.id) < PosOf(na, eb.op.id)

\* the exchange has happened from a shared state that already holds a node
C5_Witness ==
    \E ea, eb \in net :
        /\ ConcurrentInsertPair(ea, eb) /\ Exchanged(ea, eb)
        /\ Len(ea.before) >= 1
        /\ ea.pos >= 1

(* ---- C6 (Spec) -------------------------------------------------------- *)
\* C6: integrating an insert Op whose anchor node is absent leaves the node
\* list unchanged and puts the Op in the holdback queue.
C6_MissingAnchorHeldBack ==
    (/\ last.kind = "remote"
     /\ ~last.op.is_delete
     /\ IsSome(last.op.relative_id)
     /\ ~HasNode(last.before.nodes, Unwrap(last.op.relative_id)))
    => /\ buf[last.r].nodes = last.before.nodes
       /\ \E i \in 1..Len(buf[last.r].holdback_queue) :
              buf[last.r].holdback_queue[i] = last.op

(* ---- C7 (Spec) -------------------------------------------------------- *)
\* A generated op1 (anchor None) then op2 (anchored on op1's node); B, which
\* had integrated the same Ops in the same order before, got op2 then op1.
OutOfOrderPair(ra, rb, e1, e2) ==
    /\ ra # rb
    /\ e1.op.id.replica_id = ra /\ e2.op.id.replica_id = ra
    /\ ~e1.op.is_delete /\ ~e2.op.is_delete
    /\ e1.op.relative_id = None
    /\ e2.op.relative_id = Some(e1.op.id)
    /\ EndsWith(log[ra], e1.op.id, e2.op.id)
    /\ EndsWith(log[rb], e2.op.id, e1.op.id)
    /\ SubSeq(log[ra], 1, Len(log[ra]) - 2) = SubSeq(log[rb], 1, Len(log[rb]) - 2)

\* C7: once B has received op2 and then op1, B renders what A renders.
C7_OutOfOrderConverges ==
    \A ra, rb \in Replicas : \A e1, e2 \in net :
        OutOfOrderPair(ra, rb, e1, e2)
        => render(buf[rb].nodes) = render(buf[ra].nodes)

(* ---- C8 (Spec) -------------------------------------------------------- *)
ConcurrentDeletePair(ea, eb) ==
    /\ ea.op.is_delete /\ eb.op.is_delete
    /\ ea.op.id.replica_id # eb.op.id.replica_id
    /\ IsSome(ea.op.relative_id)
    /\ ea.op.relative_id = eb.op.relative_id

\* exactly one node, the one with id x, went from visible to tombstone
OnlyTargetTombstoned(before, after, x) ==
    /\ Len(after) = Len(before)
    /\ \E i \in 1..Len(before) :
          /\ before[i].insertion_id = x
          /\ before[i].visible
          /\ after[i] = [before[i] EXCEPT !.visible = FALSE]
          /\ \A j \in 1..Len(before) : j # i => after[j] = before[j]

\* C8: after two replicas deleted the same character concurrently and
\* integrated each other's delete Op, on each of them exactly the targeted
\* node turned into a tombstone, the character is missing once from the
\* text, and replicas that started from the same node list hold the same one.
C8_ConcurrentDeleteOnce ==
    \A ea, eb \in net :
        (ConcurrentDeletePair(ea, eb) /\ Exchanged(ea, eb))
        => LET x == Unwrap(ea.op.relative_id)
               na == buf[ea.op.id.replica_id].nodes
               nb == buf[eb.op.id.replica_id].nodes
           IN  /\ OnlyTargetTombstoned(ea.before, na, x)
               /\ OnlyTargetTombstoned(eb.before, nb, x)
               /\ render(na) = RemoveAt(render(ea.before), ea.pos + 1)
               /\ render(nb) = RemoveAt(render(eb.before), eb.pos + 1)
               /\ (ea.before = eb.before => na = nb)

(* ---- C9 (SpecIntent) -------------------------------------------------- *)
InRangeDelete ==
    /\ call.kind = "DeleteRange"
    /\ call.intent.start <= call.intent.end
    /\ call.intent.end <= Len(render(call.before.nodes))

\* C9: DeleteRange{start, end} within the text returns the text without the
\* characters start..end-1, and exactly end-start visible nodes turn into
\* tombstones, nothing else changing.
C9_DeleteRangeRemoves ==
    InRangeDelete
    => LET t == render(call.before.nodes)
           s == call.intent.start
           e == call.intent.end
           old == call.before.nodes
           new == backend.nodes
       IN  /\ call.full_text = SubSeq(t, 1, s) \o SubSeq(t, e + 1, Len(t))
           /\ Len(new) = Len(old)
           /\ \A i \in 1..Len(old) :
                 /\ new[i] = [old[i] EXCEPT !.visible = new[i].visible]
                 /\ ~old[i].visible => ~new[i].visible
           /\ Cardinality({i \in 1..Len(old) : old[i].visible /\ ~new[i].visible})
                 = e - s

\* a range of two or more characters has been deleted
C9_Witness ==
    /\ InRangeDelete
    /\ call.intent.end - call.intent.start >= 2

(* ---- C10 (SpecIntent) ------------------------------------------------- *)
\* C10: ReplaceAll{text} returns exactly text, and every node visible before
\* the call is still in the list, as a tombstone.
C10_ReplaceAll ==
    call.kind = "ReplaceAll"
    => /\ call.full_text = call.intent.text
       /\ \A i \in 1..Len(call.before.nodes) :
             call.before.nodes[i].visible
             => \E j \in 1..Len(backend.nodes) :
                   /\ backend.nodes[j].insertion_id
                        = call.before.nodes[i].insertion_id
                   /\ ~backend.nodes[j].visible

\* a non-empty text has replaced a non-empty document
C10_Witness ==
    /\ call.kind = "ReplaceAll"
    /\ Len(render(call.before.nodes)) >= 1
    /\ Len(call.intent.text) >= 1

(* ---- C11 (SpecIntent) ------------------------------------------------- *)
EmptyInsertAtZero ==
    /\ call.kind = "InsertAt"
    /\ call.before.nodes = <<>>
    /\ call.intent.pos = 0

\* C11: on an empty buffer InsertAt{pos: 0, text} makes the rendered text
\* equal to text.
C11_InsertIntoEmpty ==
    EmptyInsertAtZero
    => /\ render(backend.nodes) = call.intent.text
       /\ call.full_text = call.intent.text

\* a text of several different characters was inserted into the empty buffer
C11_Witness ==
    /\ EmptyInsertAtZero
    /\ Len(call.intent.text) >= 2
    /\ call.intent.text[1] # call.intent.text[2]

(* ---- C12 (SpecIntent) ------------------------------------------------- *)
\* C12: after n local operations on a fresh buffer of replica r, in range or
\* not, the version vector holds n for r.
C12_VersionCountsLocalOps ==
    /\ GlobalGet(backend.version, backend.replica_id) = call.ops
    /\ call.ops >= 1 => backend.replica_id \in DOMAIN backend.version

\* three operations were made, the last one a delete past the end
C12_Witness ==
    /\ call.kind = "DeleteRange"
    /\ call.intent.start >= Len(render(call.before.nodes))
    /\ call.intent.end > call.intent.start
    /\ call.ops >= 3

(* ---- C13 (Spec) ------------------------------------------------------- *)
\* the Ids of the Ops replica r returned, in the order it returned them
OwnIds(r) == SelectSeq(log[r], LAMBDA id : id.replica_id = r)

\* C13: the Ops a buffer returns carry its own replica_id and strictly
\* increasing sequence values, and no two Ops of the system share an Id.
C13_FreshIds ==
    /\ last.kind \in {"local_insert", "local_delete"}
          => last.op.id.replica_id = buf[last.r].replica_id
    /\ \A r \in Replicas :
          \A i, j \in 1..Len(OwnIds(r)) :
              i < j => OwnIds(r)[i].value < OwnIds(r)[j].value
    /\ \A ea, eb \in net : ea.op.id = eb.op.id => ea = eb

\* a replica returned an insert and a delete and integrated a remote Op too
C13_Witness ==
    \E r \in Replicas :
        /\ Len(OwnIds(r)) >= 2
        /\ Len(log[r]) > Len(OwnIds(r))
        /\ \E e \in net : e.op.id.replica_id = r /\ e.op.is_delete

(* ---- C14 (Spec) ------------------------------------------------------- *)
UniqueIds(nodes) ==
    \A i, j \in 1..Len(nodes) :
        i # j => nodes[i].insertion_id # nodes[j].insertion_id

\* C14: in every reachable state of a buffer no two nodes of its list have
\* the same insertion_id.
C14_UniqueNodeIds == \A r \in Replicas : UniqueIds(buf[r].nodes)

(* ---- C15 (Spec) ------------------------------------------------------- *)
\* n is the node o after some operation: same id, anchor and character, and
\* not visible again once it was a tombstone
SameNode(o, n) ==
    /\ n.insertion_id = o.insertion_id
    /\ n.relative_to_id = o.relative_to_id
    /\ n.text = o.text
    /\ ~o.visible => ~n.visible

\* every node of old is in new, in the same relative order; new holds at
\* most one node more
NodesPreserved(old, new) ==
    \/ /\ Len(new) = Len(old)
       /\ \A i \in 1..Len(old) : SameNode(old[i], new[i])
    \/ /\ Len(new) = Len(old) + 1
       /\ \E k \in 1..Len(new) :
             \A i \in 1..Len(old) :
                 SameNode(old[i], new[IF i < k THEN i ELSE i + 1])

\* C15: across every operation (local insert, local delete, integration of a
\* received Op) the nodes present before are still present, in the same
\* order and with the same id, anchor and character, and no tombstone
\* becomes visible again.
C15_NodesNeverRemoved ==
    last.kind # "none" => NodesPreserved(last.before.nodes, buf[last.r].nodes)

\* a node was inserted into a list that already held a tombstone and a
\* visible node
C15_Witness ==
    /\ last.kind \in {"local_insert", "remote"}
    /\ Len(buf[last.r].nodes) = Len(last.before.nodes) + 1
    /\ \E i, j \in 1..Len(last.before.nodes) :
          ~last.before.nodes[i].visible /\ last.before.nodes[j].visible

(* ---- C16 (SpecIntent) ------------------------------------------------- *)
\* the last call was one apply_local_insert(pos, c) with pos past the end
OutOfRangeInsert ==
    /\ call.kind = "InsertAt"
    /\ Len(call.intent.text) = 1
    /\ call.intent.pos > Len(render(call.before.nodes))

\* C16: apply_local_insert(pos, c) with pos greater than the number of
\* visible nodes uses anchor None and gives the node list, the rendered text
\* and the Op that apply_local_insert(0, c) gives on the same state.
C16_OutOfRangeInsertIsInsertAtZero ==
    OutOfRangeInsert
    => LET c == call.intent.text[1]
           far == apply_local_insert(call.before, call.intent.pos, c)
           zero == apply_local_insert(call.before, 0, c)
       IN  /\ backend = zero.buffer
           /\ call.full_text = render(zero.buffer.nodes)
           /\ far.op = zero.op
           /\ far.op.relative_id = None

\* the out-of-range insert was made on a text of at least one character
C16_Witness ==
    /\ OutOfRangeInsert
    /\ Len(render(call.before.nodes)) >= 1

(* ---- C17 (SpecIntent) ------------------------------------------------- *)
\* the last call was one apply_local_delete(pos) with pos past the end
OutOfRangeDelete ==
    /\ call.kind = "DeleteRange"
    /\ call.intent.end = call.intent.start + 1
    /\ call.intent.start >= Len(render(call.before.nodes))

\* C17: apply_local_delete(pos) with pos >= the number of visible nodes
\* changes no node, yet increments sequence, advances the version vector and
\* returns a delete Op with no text and no target.
C17_OutOfRangeDeleteIsVacuous ==
    OutOfRangeDelete
    => LET old == call.before
           op == apply_local_delete(old, call.intent.start).op
       IN  /\ backend.nodes = old.nodes
           /\ call.full_text = render(old.nodes)
           /\ backend.sequence = old.sequence + 1
           /\ GlobalGet(backend.version, backend.replica_id) = old.sequence + 1
           /\ GlobalGet(backend.version, backend.replica_id)
                 > GlobalGet(old.version, old.replica_id)
           /\ op.id = MkId(backend.replica_id, backend.sequence)
           /\ op.is_delete
           /\ op.text = None
           /\ op.relative_id = None

\* the vacuous delete was made on a text of at least one character
C17_Witness ==
    /\ OutOfRangeDelete
    /\ Len(render(call.before.nodes)) >= 1

(* ---- C18 (Spec) ------------------------------------------------------- *)
IsInsertShape(op) == IsSome(op.text) /\ ~op.is_delete
IsDeleteShape(op) == op.text = None /\ op.is_delete

\* C18: every Op a buffer returned is either an insert (a character, no
\* delete flag) or a delete (no character, delete flag), and an insert Op's
\* relative_id is the anchor of the node it created in that buffer.
C18_OpShape ==
    \A e \in net :
        LET nodes == buf[e.op.id.replica_id].nodes IN
        /\ IsInsertShape(e.op) \/ IsDeleteShape(e.op)
        /\ ~(IsInsertShape(e.op) /\ IsDeleteShape(e.op))
        /\ IsInsertShape(e.op)
              => /\ HasNode(nodes, e.op.id)
                 /\ \A i \in 1..Len(nodes) :
                       nodes[i].insertion_id = e.op.id
                       => /\ nodes[i].relative_to_id = e.op.relative_id
                          /\ Some(nodes[i].text) = e.op.text

\* an insert Op with an anchor and a delete Op have both been returned
C18_Witness ==
    /\ \E e \in net : IsInsertShape(e.op) /\ IsSome(e.op.relative_id)
    /\ \E e \in net : IsDeleteShape(e.op)

(* ---- C19 (Spec) ------------------------------------------------------- *)
\* the node an Op names (anchor of an insert, target of a delete) is present
DependencySatisfied(nodes, op) ==
    IsSome(op.relative_id) => HasNode(nodes, Unwrap(op.relative_id))

IdSpace == [replica_id : Replicas, value : 1..MaxValue]

InitCmpInputs ==
    cmp \in [done : {FALSE}, a : IdSpace, b : IdSpace, c : IdSpace]

\* compare the three Ids pairwise
Compare ==
    /\ ~cmp.done
    /\ cmp' = [done |-> TRUE, a |-> cmp.a, b |-> cmp.b, c |-> cmp.c,
               ab |-> IdCmp(cmp.a, cmp.b), ba |-> IdCmp(cmp.b, cmp.a),
               bc |-> IdCmp(cmp.b, cmp.c), ac |-> IdCmp(cmp.a, cmp.c)]
    /\ UNCHANGED <<buf, net, log, last, backend, call, extVars>>

NextCmp == Compare

InitIds == InitReplicas /\ InitBackend /\ InitCmpInputs /\ InitExt

SpecCmp == InitIds /\ [][NextCmp]_vars

(* ---- C20 (SpecCmp) ---------------------------------------------------- *)
ExactlyOne(p, q, r) ==
    (p /\ ~q /\ ~r) \/ (~p /\ q /\ ~r) \/ (~p /\ ~q /\ r)

\* C20: the comparison of Ids is a strict total order (exactly one of a<b,
\* a=b, b<a; a<b and b<c give a<c) that compares value first and replica_id
\* only on equal values.
C20_IdOrder ==
    cmp.done
    => /\ ExactlyOne(cmp.ab = "Less", cmp.a = cmp.b, cmp.ba = "Less")
       /\ (cmp.ab = "Less" /\ cmp.bc = "Less") => cmp.ac = "Less"
       /\ cmp.ab = "Less"
             <=> \/ cmp.a.value < cmp.b.value
                 \/ /\ cmp.a.value = cmp.b.value
                    /\ cmp.a.replica_id < cmp.b.replica_id

\* a tie on value broken by replica_id, inside a chain a < b < c in which
\* the replica_ids go the other way
C20_Witness ==
    /\ cmp.done
    /\ cmp.a.value = cmp.b.value /\ cmp.a.replica_id < cmp.b.replica_id
    /\ cmp.b.value < cmp.c.value /\ cmp.b.replica_id > cmp.c.replica_id
    /\ cmp.ab = "Less" /\ cmp.bc = "Less" /\ cmp.ac = "Less"

(* ---- C29 (SpecIntent) ------------------------------------------------- *)
\* a DeleteRange of one character inside the text: one call of
\* apply_local_delete(start)
SingleDelete ==
    /\ call.kind = "DeleteRange"
    /\ call.intent.end = call.intent.start + 1
    /\ call.intent.start < Len(render(call.before.nodes))

\* C29: apply_local_delete(pos) with pos below the number of visible nodes
\* hides exactly the node that has pos visible nodes before it, changes no
\* other node and not the order, returns a delete Op naming that node's
\* insertion_id, and the text loses the character at index pos.
C29_LocalDeleteFrame ==
    SingleDelete
    => LET pos == call.intent.start
           b == call.before.nodes
           res == apply_local_delete(call.before, pos)
       IN  /\ res.buffer = backend
           /\ \E t \in 1..Len(b) :
                 /\ b[t].visible
                 /\ Cardinality({i \in 1..(t - 1) : b[i].visible}) = pos
                 /\ backend.nodes = [b EXCEPT ![t].visible = FALSE]
                 /\ res.op.relative_id = Some(b[t].insertion_id)
                 /\ res.op.is_delete
           /\ render(backend.nodes) = RemoveAt(render(b), pos + 1)

\* the node hidden is not the one at list index pos: a tombstone precedes it
C29_Witness ==
    /\ SingleDelete
    /\ VisibleIdx(call.before.nodes)[call.intent.start + 1] > call.intent.start + 1
    /\ Len(render(backend.nodes)) = Len(render(call.before.nodes)) - 1

(* ---- C30 (Spec) ------------------------------------------------------- *)
\* the Op is an insert that buffer nodes has not integrated and whose anchor
\* is None or a node of the list
Integrable(nodes, op) ==
    /\ IsInsertOp(op)
    /\ ~HasNode(nodes, op.id)
    /\ op.relative_id = None \/ HasNode(nodes, Unwrap(op.relative_id))

\* C30: integrating two distinct insert Nodes whose anchors are present (or
\* None) into a buffer gives the same node list in either order.
C30_InsertNodeCommutes ==
    \A r \in Replicas : \A ea, eb \in net :
        (/\ ea.op.id # eb.op.id
         /\ Integrable(buf[r].nodes, ea.op)
         /\ Integrable(buf[r].nodes, eb.op))
        => insert_node(insert_node(buf[r].nodes, NodeOf(ea.op)), NodeOf(eb.op))
           = insert_node(insert_node(buf[r].nodes, NodeOf(eb.op)), NodeOf(ea.op))

(* ======================================================================= *)
(* SpecGlobal: one version vector (Global) updated with arbitrary Ids, in  *)
(* any order, as it is on integrating Ops from several replicas.           *)
(* ======================================================================= *)
\* the Ids a version vector is updated with; value 0 creates the entry
VersionIds == [replica_id : Replicas, value : 0..MaxValue]

\* Global::update(id)
Update(id) ==
    /\ gv' = [state |-> GlobalUpdate(gv.state, id),
              before |-> gv.state,
              id |-> Some(id)]
    /\ UNCHANGED <<crdtVars, drawVars, syncVars, tx, lk, rx, ui>>

NextGlobal == \E id \in VersionIds : Update(id)

SpecGlobal == Init /\ [][NextGlobal]_vars

(* ---- C21 (SpecGlobal) ------------------------------------------------- *)
MaxOf(x, y) == IF x >= y THEN x ELSE y

\* C21: Global.update(id) sets the entry of id.replica_id to the maximum of
\* its previous value (0 when absent) and id.value and leaves every other
\* key as it was; no entry decreases; applying the same update again
\* changes nothing.
C21_GlobalUpdate ==
    IsSome(gv.id)
    => LET id == Unwrap(gv.id)
           r == id.replica_id
       IN  /\ r \in DOMAIN gv.state
           /\ gv.state[r] = MaxOf(GlobalGet(gv.before, r), id.value)
           /\ DOMAIN gv.state \ {r} = DOMAIN gv.before \ {r}
           /\ \A k \in DOMAIN gv.before \ {r} : gv.state[k] = gv.before[k]
           /\ \A k \in Replicas :
                  GlobalGet(gv.state, k) >= GlobalGet(gv.before, k)
           /\ GlobalUpdate(gv.state, id) = gv.state

\* an update whose value is below the entry already recorded for its
\* replica, on a vector that also holds an entry for another replica
C21_Witness ==
    /\ IsSome(gv.id)
    /\ Unwrap(gv.id).value < GlobalGet(gv.before, Unwrap(gv.id).replica_id)
    /\ Cardinality(DOMAIN gv.before) = 2
    /\ gv.state = gv.before

(* ======================================================================= *)
(* SpecDraw: an AutomergeBackend and a MockBackend given the same Draw     *)
(* and Clear intents; the AutomergeBackend is saved and the bytes loaded   *)
(* into a new backend at any point.                                        *)
(* ======================================================================= *)
ApplyBoth(intent) ==
    /\ ret.n < MaxIntents
    /\ LET a == AutomergeBackend_apply_intent(am, intent)
           m == MockBackend_apply_intent(mock, intent)
       IN  /\ am' = a.backend
           /\ mock' = m.backend
           /\ ret' = [ret EXCEPT !.kind = "apply_intent", !.intent = intent,
                                 !.n = @ + 1, !.before = am,
                                 !.am_update = a.update,
                                 !.mock_update = m.update]
    /\ UNCHANGED <<crdtVars, gv, syncVars, tx, lk, rx, ui>>

Draw == \E s \in Strokes : ApplyBoth(DrawIntent(s))

Clear == ApplyBoth(ClearIntent)

\* backend1.save(), then AutomergeBackend::new().load(data)
SaveLoad ==
    /\ \E actor \in Actors \ {am.doc.actor} :
          ret' = [ret EXCEPT
                    !.kind = "save_load", !.before = am,
                    !.loaded = AutomergeBackend_load(AutomergeBackend_new(actor),
                                                     AutomergeBackend_save(am),
                                                     actor)]
    /\ UNCHANGED <<crdtVars, gv, am, mock, syncVars, tx, lk, rx, ui>>

NextDraw == Draw \/ Clear \/ SaveLoad

SpecDraw == Init /\ [][NextDraw]_vars

(* ---- C22 (SpecDraw) --------------------------------------------------- *)
DrawCall == ret.kind = "apply_intent" /\ ret.intent.kind = "Draw"

\* C22: a new AutomergeBackend has no strokes, and apply_intent(Draw(s))
\* appends s: get_strokes() is then what it was before followed by s, and
\* the FrontendUpdate returned carries that list.
C22_DrawAppends ==
    /\ ret.kind = "none" => AutomergeBackend_get_strokes(am) = <<>>
    /\ DrawCall
       => /\ AutomergeBackend_get_strokes(am)
             = Append(AutomergeBackend_get_strokes(ret.before),
                      Unwrap(ret.intent.stroke))
          /\ ret.am_update = AutomergeBackend_get_strokes(am)

\* a stroke drawn onto a list that shows a stroke and holds a deleted one
C22_Witness ==
    /\ DrawCall
    /\ Len(AutomergeBackend_get_strokes(ret.before)) = 1
    /\ Len(AutomergeBackend_get_strokes(am)) = 2
    /\ \E o \in am.doc.ops : o.action = "del"

(* ---- C23 (SpecDraw) --------------------------------------------------- *)
ClearCall == ret.kind = "apply_intent" /\ ret.intent.kind = "Clear"

\* C23: after apply_intent(Clear) get_strokes() is empty, whatever intents
\* came before, and the FrontendUpdate returned has no strokes.
C23_ClearEmpties ==
    ClearCall
    => /\ AutomergeBackend_get_strokes(am) = <<>>
       /\ ret.am_update = <<>>

\* a Clear of a list that showed two strokes
C23_Witness ==
    /\ ClearCall
    /\ Len(AutomergeBackend_get_strokes(ret.before)) = 2
    /\ AutomergeBackend_get_strokes(am) = <<>>

C26_Substitutable ==
    ret.kind = "apply_intent"
    => /\ ret.am_update = ret.mock_update
       /\ AutomergeBackend_get_strokes(am) = MockBackend_get_strokes(mock)

\* the backends hold two strokes after a Clear that removed one
C26_Witness ==
    /\ ret.kind = "apply_intent"
    /\ Len(MockBackend_get_strokes(mock)) = 2
    /\ Len(AutomergeBackend_get_strokes(am)) = 2
    /\ \E o \in am.doc.ops : o.action = "del"

(* ======================================================================= *)
(* SpecSync: two AutomergeBackends whose editors are in one room. Each     *)
(* applies intents, learns of the other (peer_connected/_disconnected),    *)
(* generates sync messages for it and receives the other's, in order.      *)
(* ======================================================================= *)
\* the strokes the peers draw: a pen stroke and an eraser stroke
PeerStrokes == {s \in Strokes : Len(s.points) = 1}

PeerIntent(p, intent) ==
    /\ events < MaxPeerEvents
    /\ peer' = [peer EXCEPT ![p] = AutomergeBackend_apply_intent(@, intent).backend]
    /\ events' = events + 1
    /\ UNCHANGED <<crdtVars, gv, drawVars, wire, tx, lk, rx, ui>>

PeerConnected(p, q) ==
    /\ q \notin DOMAIN peer[p].sync_states
    /\ peer' = [peer EXCEPT ![p] = AutomergeBackend_peer_connected(@, q)]
    /\ UNCHANGED <<crdtVars, gv, drawVars, wire, events, tx, lk, rx, ui>>

PeerDisconnected(p, q) ==
    /\ q \in DOMAIN peer[p].sync_states
    /\ events < MaxPeerEvents
    /\ peer' = [peer EXCEPT ![p] = AutomergeBackend_peer_disconnected(@, q)]
    /\ events' = events + 1
    /\ UNCHANGED <<crdtVars, gv, drawVars, wire, tx, lk, rx, ui>>

\* p generates a message for q and sends it
Generate(p, q) ==
    /\ Len(wire[<<p, q>>]) < MaxInFlight
    /\ LET r == AutomergeBackend_generate_sync_message(peer[p], q) IN
        /\ IsSome(r.message)
        /\ peer' = [peer EXCEPT ![p] = r.backend]
        /\ wire' = [wire EXCEPT ![<<p, q>>] = Append(@, Unwrap(r.message))]
    /\ UNCHANGED <<crdtVars, gv, drawVars, events, tx, lk, rx, ui>>

\* q receives the oldest message p sent it
Receive(p, q) ==
    /\ wire[<<p, q>>] # <<>>
    /\ peer' = [peer EXCEPT ![q] =
                  AutomergeBackend_receive_sync_message(@, p, Head(wire[<<p, q>>])).backend]
    /\ wire' = [wire EXCEPT ![<<p, q>>] = Tail(@)]
    /\ UNCHANGED <<crdtVars, gv, drawVars, events, tx, lk, rx, ui>>

NextSync ==
    \/ \E p \in PeerIds, s \in PeerStrokes : PeerIntent(p, DrawIntent(s))
    \/ \E l \in Links : PeerConnected(l[1], l[2])
    \/ \E l \in Links : PeerDisconnected(l[1], l[2])
    \/ \E l \in Links : Generate(l[1], l[2])
    \/ \E l \in Links : Receive(l[1], l[2])

SpecSync == Init /\ [][NextSync]_vars

(* ---- C25 (SpecSync) --------------------------------------------------- *)
\* each backend holds a sync state for the other
Connected == \A l \in Links : l[2] \in DOMAIN peer[l[1]].sync_states

\* nothing is in flight and generate_sync_message returns None on both sides
Quiet ==
    \A l \in Links :
        /\ wire[l] = <<>>
        /\ AutomergeBackend_generate_sync_message(peer[l[1]], l[2]).message = None

\* C25: when two backends that hold a sync state for each other have passed
\* each other's sync messages on until both generate None, their stroke
\* lists are equal: the receiver shows the strokes the other drew.
C25_SyncConverges ==
    (Connected /\ Quiet)
    => AutomergeBackend_get_strokes(peer["a"]) = AutomergeBackend_get_strokes(peer["b"])

\* only a has drawn, and b shows the stroke after the exchange has ended
C25_Witness ==
    /\ Connected /\ Quiet
    /\ peer["a"].doc.ops # {}
    /\ \A o \in peer["b"].doc.ops : o.id.actor = ActorOf["a"]
    /\ Len(AutomergeBackend_get_strokes(peer["b"])) >= 1
(* ======================================================================= *)
(* SpecTransport: the network task of a connected editor handles Broadcast *)
(* and Send commands; each cuts the serialized message into packets and    *)
(* publishes them in order.                                                *)
(* ======================================================================= *)
\* the texts sent: the empty one and those whose message is within MaxSlack
\* bytes of a multiple of the chunk size
TextLengths ==
    {0} \cup {k * ChunkSize + d - Len(ChatEnvelope) :
                k \in 1..MaxChunks, d \in (0 - MaxSlack)..MaxSlack}

Messages == {Chat(n) : n \in TextLengths}

\* Some(AppCommand::Broadcast(msg)): to every participant
Broadcast(msg, id) ==
    /\ tx' = [cmd |-> "Broadcast", message |-> msg,
              published |-> Publish(msg, id, <<>>)]
    /\ UNCHANGED <<crdtVars, gv, drawVars, syncVars, lk, rx, ui>>

\* Some(AppCommand::Send { recipients, message })
Send(recipients, message, id) ==
    /\ tx' = [cmd |-> "Send", message |-> message,
              published |-> Publish(message, id, recipients)]
    /\ UNCHANGED <<crdtVars, gv, drawVars, syncVars, lk, rx, ui>>

NextTransport ==
    \/ \E msg \in Messages, id \in TransferIds : Broadcast(msg, id)
    \/ \E recipients \in RecipientLists, msg \in Messages, id \in TransferIds :
          Send(recipients, msg, id)

SpecTransport == Init /\ [][NextTransport]_vars

(* ---- C27 (SpecTransport) ---------------------------------------------- *)
Ceil(n, d) == IF n % d = 0 THEN n \div d ELSE n \div d + 1

RECURSIVE Concat(_)
Concat(ss) == IF ss = <<>> THEN <<>> ELSE Head(ss) \o Concat(Tail(ss))

\* the TransportPackets a receiver decodes from the published payloads
PublishedPackets ==
    [i \in 1..Len(tx.published) |->
        Unwrap(TransportPacket_from_slice(tx.published[i].payload))]

\* C27: a message of L <= 14000 serialized bytes is published as exactly one
\* TransportPacket::Message carrying the L bytes; a longer one as exactly
\* ceil(L/14000) Chunk packets with one id, total = ceil(L/14000), indices
\* 0..total-1 in increasing order, each of at most 14000 bytes, whose data
\* concatenated in index order is the serialized message.
C27_Fragmentation ==
    tx.cmd # "none" =>
        LET data == NetworkMessage_to_vec(tx.message)
            P == PublishedPackets
            total == Ceil(data.len, ChunkSize)
        IN  IF data.len <= ChunkSize
            THEN /\ Len(P) = 1
                 /\ P[1].type = "Message"
                 /\ Bytes(P[1].data) = Bytes(data)
            ELSE /\ Len(P) = total
                 /\ \A i \in 1..Len(P) :
                        /\ P[i].type = "Chunk"
                        /\ P[i].id = P[1].id
                        /\ P[i].total = total
                        /\ P[i].index = i - 1
                        /\ P[i].data.len <= ChunkSize
                 /\ Concat([i \in 1..Len(P) |-> Bytes(P[i].data)]) = Bytes(data)

\* a Send of a message one byte longer than two chunks: three packets, the
\* last of one byte
C27_Witness ==
    /\ tx.cmd = "Send"
    /\ NetworkMessage_to_vec(tx.message).len = 2 * ChunkSize + 1
    /\ Len(tx.published) = 3
    /\ PublishedPackets[3].data.len = 1
(* ======================================================================= *)
(* SpecRoom: the user joins and leaves a LiveKit room. AppView holds the   *)
(* flags and its ends of the two channels; the background task connects,   *)
(* reports over tx_msg and serves rx_cmd. A task whose channels the UI has *)
(* replaced no longer reaches the UI and is not followed further. The room *)
(* has no other participant.                                               *)
(* ======================================================================= *)
\* tx_msg.send(msg): fails, and is ignored, once the receiver is dropped
SendMsg(l, msg) == IF l.app_msg_receiver THEN Append(l.msgs, msg) ELSE l.msgs

\* connect_or_create_to_room when create_token fails: the error is logged
ConnectTokenError ==
    /\ ~lk.livekit_connected
    /\ lk.connects < MaxConnects
    /\ lk' = [lk EXCEPT !.livekit_connecting = FALSE,
                        !.livekit_events = Append(@, "Token generation error"),
                        !.connects = @ + 1]
    /\ UNCHANGED <<crdtVars, gv, drawVars, syncVars, tx, rx, ui>>

\* connect_or_create_to_room: new channels, the task is spawned, and the
\* flags are set before the task has run
ConnectOrCreateToRoom ==
    /\ ~lk.livekit_connected
    /\ lk.connects < MaxConnects
    /\ lk' = [lk EXCEPT !.livekit_command_sender = TRUE,
                        !.app_msg_receiver = TRUE,
                        !.cmds = <<>>,
                        !.msgs = <<>>,
                        !.task = "connecting",
                        !.livekit_connecting = FALSE,
                        !.livekit_connected = TRUE,
                        !.livekit_participants = Append(@, "me"),
                        !.connects = @ + 1]
    /\ UNCHANGED <<crdtVars, gv, drawVars, syncVars, tx, rx, ui>>

\* the task: Room::connect returns Ok
RoomConnectOk ==
    /\ lk.task = "connecting"
    /\ lk' = [lk EXCEPT !.task = "connected",
                        !.msgs = SendMsg(lk, "Connected to Room")]
    /\ UNCHANGED <<crdtVars, gv, drawVars, syncVars, tx, rx, ui>>

\* the task: Room::connect returns Err; the task reports and returns
RoomConnectErr ==
    /\ lk.task = "connecting"
    /\ lk' = [lk EXCEPT !.task = "failed",
                        !.msgs = SendMsg(lk, "Connection failed")]
    /\ UNCHANGED <<crdtVars, gv, drawVars, syncVars, tx, rx, ui>>

\* the task: RoomEvent::Disconnected; it reports, leaves the loop and closes
RoomDisconnected ==
    /\ lk.task = "connected"
    /\ lk' = [lk EXCEPT !.task = "lost",
                        !.msgs = SendMsg(lk, "Disconnected")]
    /\ UNCHANGED <<crdtVars, gv, drawVars, syncVars, tx, rx, ui>>

\* the task: Some(AppCommand::Disconnect); it leaves the loop and closes
TaskDisconnect ==
    /\ lk.task = "connected"
    /\ lk.cmds # <<>>
    /\ Head(lk.cmds) = "Disconnect"
    /\ lk' = [lk EXCEPT !.task = "closed", !.cmds = Tail(@)]
    /\ UNCHANGED <<crdtVars, gv, drawVars, syncVars, tx, rx, ui>>

\* update(): every AppMsg::Log waiting is pushed to livekit_events
AppView_update ==
    /\ lk.app_msg_receiver
    /\ lk.msgs # <<>>
    /\ lk' = [lk EXCEPT !.livekit_events = @ \o lk.msgs, !.msgs = <<>>]
    /\ UNCHANGED <<crdtVars, gv, drawVars, syncVars, tx, rx, ui>>

\* disconnect_room, offered by the panels while livekit_connected
DisconnectRoom ==
    /\ lk.livekit_connected
    /\ lk' = [lk EXCEPT !.cmds = IF lk.livekit_command_sender
                                 THEN Append(@, "Disconnect") ELSE @,
                        !.livekit_connected = FALSE,
                        !.livekit_command_sender = FALSE,
                        !.app_msg_receiver = FALSE,
                        !.msgs = <<>>,
                        !.livekit_participants = <<>>,
                        !.livekit_events = Append(@, "Disconnected.")]
    /\ UNCHANGED <<crdtVars, gv, drawVars, syncVars, tx, rx, ui>>

NextRoom ==
    \/ ConnectTokenError
    \/ ConnectOrCreateToRoom
    \/ RoomConnectOk
    \/ RoomConnectErr
    \/ RoomDisconnected
    \/ TaskDisconnect
    \/ AppView_update
    \/ DisconnectRoom

SpecRoom == Init /\ [][NextRoom]_vars

(* ---- C28 (SpecRoom) --------------------------------------------------- *)
\* C28: livekit_connected tells whether the task holds an established room
\* connection: once Room::connect has failed in the task, or the task has
\* received RoomEvent::Disconnected, and the UI has taken every message the
\* task sent it, livekit_connected is false.
C28_ConnectedReflectsRoom ==
    (lk.task \in {"failed", "lost"} /\ lk.msgs = <<>>) => ~lk.livekit_connected
(* ======================================================================= *)
(* SpecReassembly: the network task of a connected editor receives data    *)
(* packets of the other participants: chunks in any order, repeated, with  *)
(* any index and total, whole messages, and packets of no known shape.     *)
(* rx.hist and rx.last are history: what was received for each transfer    *)
(* still open, and the last step.                                          *)
(* ======================================================================= *)
\* the indices and totals of the chunks received; the index of a chunk may
\* lie outside its total and outside the transfer's buffer
ChunkIndices == 0..(Len(SentChunks) - 1)
ChunkTotals == 1..Len(SentChunks)

\* the payloads received: chunks, the message in one packet, the bare message
ChunkPayloads ==
    {TransportPacket_to_vec(TransportChunk(id, index, total, data)) :
        id \in TransferIds, index \in ChunkIndices, total \in ChunkTotals,
        data \in Pieces}

Payloads ==
    ChunkPayloads
    \cup {TransportPacket_to_vec(TransportMessage(NetworkMessage_to_vec(ReceivedMessage))),
          NetworkMessage_to_vec(ReceivedMessage)}

\* the history of a transfer after one more chunk: the totals named so far
\* and, for each index, the data that came first
Noted(h, packet) ==
    [totals |-> h.totals \cup {packet.total},
     first |-> IF packet.index \in DOMAIN h.first
               THEN h.first ELSE SetKey(h.first, packet.index, packet.data)]

\* the transfer of (sender, id) in the task's map, None when there is none
TransferOf(state, sender, id) ==
    IF sender \in DOMAIN state.incomplete_transfers
       /\ id \in DOMAIN state.incomplete_transfers[sender]
    THEN Some(state.incomplete_transfers[sender][id])
    ELSE None

ReceiveData(sender, payload) ==
    /\ ~rx.task.panicked
    /\ rx.packets < MaxPackets
    /\ LET after == DataReceived(rx.task, sender, payload)
           packet == TransportPacket_from_slice(payload)
           chunk == IsSome(packet) /\ Unwrap(packet).type = "Chunk"
           key == <<sender, IF chunk THEN Unwrap(packet).id ELSE 0>>
           h0 == IF key \in DOMAIN rx.hist THEN rx.hist[key] ELSE NoHist
           h1 == IF chunk THEN Noted(h0, Unwrap(packet)) ELSE h0
           open == chunk /\ IsSome(TransferOf(after, sender, key[2]))
       IN  rx' = [task |-> after,
                  hist |-> IF ~chunk THEN rx.hist
                           ELSE IF open THEN SetKey(rx.hist, key, h1)
                           ELSE RemoveKey(rx.hist, key),
                  last |-> [kind |-> IF chunk THEN "chunk" ELSE "message",
                            sender |-> sender,
                            payload |-> payload,
                            hist |-> h1,
                            again |-> chunk /\ Unwrap(packet).index \in DOMAIN h0.first,
                            before |-> TransferOf(rx.task, sender, key[2]),
                            after |-> TransferOf(after, sender, key[2]),
                            forwarded |-> rx.task.forwarded],
                  packets |-> rx.packets + 1]
    /\ UNCHANGED <<crdtVars, gv, drawVars, syncVars, tx, lk, ui>>

\* RoomEvent::ParticipantDisconnected: the sender's open transfers are dropped
ParticipantLeft(sender) ==
    /\ ~rx.task.panicked
    /\ sender \in DOMAIN rx.task.incomplete_transfers
    /\ rx' = [rx EXCEPT
                !.task.incomplete_transfers = RemoveKey(@, sender),
                !.hist = [k \in {k \in DOMAIN rx.hist : k[1] # sender} |-> rx.hist[k]],
                !.last = [kind |-> "left", sender |-> sender, payload |-> <<>>,
                          hist |-> NoHist, again |-> FALSE, before |-> None,
                          after |-> None, forwarded |-> rx.task.forwarded]]
    /\ UNCHANGED <<crdtVars, gv, drawVars, syncVars, tx, lk, ui>>

NextReassembly ==
    \/ \E sender \in PeerIds, payload \in Payloads : ReceiveData(sender, payload)
    \/ \E sender \in PeerIds : ParticipantLeft(sender)

SpecReassembly == Init /\ [][NextReassembly]_vars

(* ---- C31 (SpecReassembly) --------------------------------------------- *)
\* every chunk received for the transfer named the same total
ConsistentTotal == rx.last.kind = "chunk" /\ Cardinality(rx.last.hist.totals) = 1

\* the total of such a transfer
TotalOf(h) == CHOOSE t \in h.totals : TRUE

\* every index 0..total-1 has been received
AllReceived(h) == \A i \in 0..(TotalOf(h) - 1) : i \in DOMAIN h.first

\* the chunks received first for each index, in index order
InIndexOrder(h) == [i \in 1..TotalOf(h) |-> h.first[i - 1]]

\* C31: for a transfer (sender, id) whose chunks all name one total, the
\* message is forwarded at the step that brings the last missing index of
\* 0..total-1 and at no earlier step; a chunk whose index came before leaves
\* the count and the stored data as they were; what is forwarded is parsed
\* from the chunks received first for each index, joined in index order,
\* whatever the order of arrival.
C31_Reassembly ==
    ConsistentTotal =>
        LET h == rx.last.hist
            completed == rx.last.after = None
        IN  /\ ~rx.task.panicked
            /\ completed <=> AllReceived(h)
            /\ rx.task.forwarded =
                  IF completed
                  THEN Forward(rx.last.forwarded, rx.last.sender, InIndexOrder(h))
                  ELSE rx.last.forwarded
            /\ (rx.last.again /\ ~completed) => rx.last.after = rx.last.before

\* the second chunk came first, then once more with other data, then the
\* first chunk: the message is forwarded
C31_Witness ==
    /\ ConsistentTotal
    /\ rx.packets = 3
    /\ rx.last.after = None
    /\ rx.last.hist.first = SetKey(SetKey(<<>>, 1, SentChunks[2]), 0, SentChunks[1])
    /\ Len(rx.task.forwarded) = 1
    /\ rx.task.forwarded[1].message = ReceivedMessage

(* ---- C36 (SpecReassembly) --------------------------------------------- *)
\* C36: whatever Chunk packets a sender sends, a reused transfer id with
\* another total and an index >= total included, the completion branch is
\* never taken with an empty slot in the transfer's buffer: the unwrap of
\* the slots never panics.
C36_NoMissingChunkRead == ~rx.task.panicked
(* ======================================================================= *)
(* SpecApp: two editors in one room. Each learns of the other, draws,      *)
(* opens pictures and saved documents, and handles the Sync messages of    *)
(* the other; every handler ends with sync_with_all. The Sends travel to   *)
(* the other editor in order. ui.last is history.                          *)
(* ======================================================================= *)
\* the Sends put on their way
RECURSIVE Post(_, _, _)
Post(w, p, sent) ==
    IF sent = <<>> THEN w
    ELSE Post([w EXCEPT ![<<p, Head(sent).recipients[1]>>] =
                   Append(@, Head(sent).message.payload)],
              p, Tail(sent))

\* a new random actor id for a loaded document
FreshActor(p) == ActorOf[p] + Cardinality(Actors) * (events + 1)

AppStep(kind, p, data, loaded, r) ==
    [kind |-> kind, p |-> p, data |-> data, before |-> peer[p],
     loaded |-> loaded, participants |-> ui.livekit_participants[p],
     sent |-> r.sent]

\* update(), AppMsg::ParticipantConnected(q): q is listed, gets a new sync
\* state and is sent a first sync message
AppParticipantConnected(p, q) ==
    /\ \A i \in 1..Len(ui.livekit_participants[p]) : ui.livekit_participants[p][i] # q
    /\ LET b == AutomergeBackend_peer_connected(peer[p], q)
           r == AutomergeBackend_generate_sync_message(b, q)
           sent == IF IsSome(r.message)
                   THEN <<[recipients |-> <<q>>, message |-> Sync(Unwrap(r.message))]>>
                   ELSE <<>>
       IN  /\ peer' = [peer EXCEPT ![p] = r.backend]
           /\ wire' = Post(wire, p, sent)
           /\ ui' = [livekit_participants |->
                        [ui.livekit_participants EXCEPT ![p] = Append(@, q)],
                     last |-> AppStep("connected", p, GarbageFile, peer[p], [sent |-> sent])]
    /\ UNCHANGED <<crdtVars, gv, drawVars, events, tx, lk, rx>>

\* handle_intent: apply_intent, then sync_with_all
HandleIntent(p, intent) ==
    /\ events < MaxAppEvents
    /\ LET b == AutomergeBackend_apply_intent(peer[p], intent).backend
           r == sync_with_all(b, ui.livekit_participants[p])
       IN  /\ peer' = [peer EXCEPT ![p] = r.backend]
           /\ wire' = Post(wire, p, r.sent)
           /\ ui' = [ui EXCEPT !.last = AppStep("intent", p, GarbageFile, peer[p], r)]
    /\ events' = events + 1
    /\ UNCHANGED <<crdtVars, gv, drawVars, tx, lk, rx>>

\* open_file, a .png: handle_intent(Intent::Clear), then set_background and
\* sync_with_all
OpenPicture(p) ==
    /\ events < MaxAppEvents
    /\ LET c == AutomergeBackend_apply_intent(peer[p], ClearIntent).backend
           rc == sync_with_all(c, ui.livekit_participants[p])
           b == AutomergeBackend_set_background(rc.backend, Picture)
           rb == sync_with_all(b, ui.livekit_participants[p])
           r == [backend |-> rb.backend, sent |-> rc.sent \o rb.sent]
       IN  /\ peer' = [peer EXCEPT ![p] = r.backend]
           /\ wire' = Post(wire, p, r.sent)
           /\ ui' = [ui EXCEPT !.last = AppStep("open_picture", p, GarbageFile, peer[p], r)]
    /\ events' = events + 1
    /\ UNCHANGED <<crdtVars, gv, drawVars, tx, lk, rx>>

\* open_file, another file: load, then sync_with_all
OpenFile(p, data) ==
    /\ events < MaxAppEvents
    /\ LET b == AutomergeBackend_load(peer[p], data, FreshActor(p))
           r == sync_with_all(b, ui.livekit_participants[p])
       IN  /\ peer' = [peer EXCEPT ![p] = r.backend]
           /\ wire' = Post(wire, p, r.sent)
           /\ ui' = [ui EXCEPT !.last = AppStep("open_file", p, data, b, r)]
    /\ events' = events + 1
    /\ UNCHANGED <<crdtVars, gv, drawVars, tx, lk, rx>>

\* update(), AppMsg::NetworkMessage { sender: q, message: Sync(data) }:
\* receive_sync_message, then sync_with_all
AppSync(p, q) ==
    /\ wire[<<q, p>>] # <<>>
    /\ LET b == AutomergeBackend_receive_sync_message(peer[p], q, Head(wire[<<q, p>>])).backend
           r == sync_with_all(b, ui.livekit_participants[p])
       IN  /\ peer' = [peer EXCEPT ![p] = r.backend]
           /\ wire' = Post([wire EXCEPT ![<<q, p>>] = Tail(@)], p, r.sent)
           /\ ui' = [ui EXCEPT !.last = AppStep("sync", p, GarbageFile, peer[p], r)]
    /\ UNCHANGED <<crdtVars, gv, drawVars, events, tx, lk, rx>>

\* the editors whose user opens files
Openers == {"a"}

NextApp ==
    \/ \E l \in Links : AppParticipantConnected(l[1], l[2])
    \/ \E p \in PeerIds : HandleIntent(p, DrawIntent(AppStroke))
    \/ \E p \in Openers : OpenPicture(p)
    \/ \E p \in Openers, data \in Files : OpenFile(p, data)
    \/ \E l \in Links : AppSync(l[1], l[2])

SpecApp == Init /\ [][NextApp]_vars

(* ---- C32 (SpecApp) ---------------------------------------------------- *)
\* C32: load with bytes that do not decode leaves get_strokes(),
\* get_background() and the sync states as they were; load with the bytes of
\* a saved document replaces the document by the saved one and clears the
\* sync states.
C32_LoadOrUnchanged ==
    ui.last.kind = "open_file" =>
        LET b == ui.last.before
            l == ui.last.loaded
        IN  /\ ui.last.data = GarbageFile =>
                  /\ AutomergeBackend_get_strokes(l) = AutomergeBackend_get_strokes(b)
                  /\ AutomergeBackend_get_background(l) = AutomergeBackend_get_background(b)
                  /\ l.sync_states = b.sync_states
            /\ ui.last.data = ValidFile =>
                  /\ l.doc.ops = SavedBackend.doc.ops
                  /\ AutomergeBackend_get_strokes(l) = AutomergeBackend_get_strokes(SavedBackend)
                  /\ AutomergeBackend_get_background(l) = None
                  /\ l.sync_states = <<>>

\* bytes that do not decode are loaded into a backend that holds a stroke, a
\* background and a sync state
C32_Witness ==
    /\ ui.last.kind = "open_file"
    /\ ui.last.data = GarbageFile
    /\ AutomergeBackend_get_strokes(ui.last.before) # <<>>
    /\ AutomergeBackend_get_background(ui.last.before) = Some(Picture)
    /\ DOMAIN ui.last.before.sync_states # {}

(* ---- C33 (SpecApp) ---------------------------------------------------- *)
\* the participants an editor lists besides itself
Remote(step) ==
    {step.participants[i] : i \in 1..Len(step.participants)} \ {step.p}

\* C33: when open_file has loaded a saved document while other participants
\* are listed, its sync_with_all sends a NetworkMessage::Sync to each of
\* them.
C33_OpenFileSyncs ==
    (ui.last.kind = "open_file" /\ ui.last.data = ValidFile) =>
        \A q \in Remote(ui.last) :
            \E i \in 1..Len(ui.last.sent) :
                /\ ui.last.sent[i].recipients = <<q>>
                /\ ui.last.sent[i].message.type = "Sync"

(* ---- C34 (SpecIntent) ------------------------------------------------- *)
\* C34: in every state a Buffer reaches through new, apply_local_insert,
\* apply_local_delete and the intents built on them, positions out of range
\* included, holdback_queue is empty.
C34_HoldbackEmpty == backend.holdback_queue = <<>>

\* inserts and deletes have run, one of them an insert at a position past
\* the end, and the buffer holds a tombstone and a visible node
C34_Witness ==
    /\ call.kind = "InsertAt"
    /\ call.intent.pos > Len(VisibleIdx(call.before.nodes))
    /\ call.intent.text # <<>>
    /\ \E i, j \in 1..Len(backend.nodes) :
          ~backend.nodes[i].visible /\ backend.nodes[j].visible

(* ---- C35 (SpecIntent) ------------------------------------------------- *)
\* C35: in every state a Buffer reaches by local operations, each Node whose
\* anchor is Some(x) has a Node with insertion_id x in the list, at a
\* position strictly before its own.
C35_AnchorPrecedes ==
    \A i \in 1..Len(backend.nodes) :
        IsSome(backend.nodes[i].relative_to_id) =>
            \E j \in 1..(i - 1) :
                backend.nodes[j].insertion_id = Unwrap(backend.nodes[i].relative_to_id)

\* a node is anchored to a node that is not its neighbour and has been
\* deleted since
C35_Witness ==
    \E i \in 1..Len(backend.nodes) :
        \E j \in 1..(i - 2) :
            /\ backend.nodes[i].relative_to_id = Some(backend.nodes[j].insertion_id)
            /\ ~backend.nodes[j].visible

====
